---- MODULE Spec2Model ----
(***************************************************************************)
(* Verification model of the medispa valuation repository.                 *)
(*                                                                         *)
(* The repository holds several independent valuation programs:            *)
(*   - src/summit_pe.txt            Python CLI (ValuationModel, sensitivity,*)
(*                                  monte_carlo)                            *)
(*   - src/summit3/summit3.md       React component (dcf, runMonteCarlo,    *)
(*                                  percentile) and app/modeling.py         *)
(*   - src/unnamed/part_001         Streamlit EPV app (compute_epv,         *)
(*                                  sensitivity_grid, tornado_data,         *)
(*                                  monte_carlo)                            *)
(*   - src/unnamed/part_002, src/data_processor.js,                        *)
(*     src/realtime_market_data.ts  comparable-multiple calculators         *)
(*                                                                         *)
(* Each program is modelled by its own group of variables and its own      *)
(* specification; the variables of the other groups stay at their idle     *)
(* value.  Floating-point numbers are modelled as exact rationals          *)
(* <<numerator, denominator>> in lowest terms with a positive denominator, *)
(* so that equal values are equal states.                                  *)
(***************************************************************************)
EXTENDS Integers, Sequences, FiniteSets, TLC

VARIABLES
    cfg,        \* summit_pe: the ModelConfig loaded from the config file
    meta,       \* summit_pe: result of the last `run` command (NoResult before)
    ui,         \* summit3 component: the DCF state hooks
    dcfMemo,    \* summit3 component: the value of the `dcf` useMemo
    multiple,   \* the market multiple last computed, with its function and input
    proc,       \* summit_pe: the `sensitivity` or `mc` command being executed
    epv,        \* part_001: the analytics call being executed
    growth,     \* growth_sensitivity_analyzer: the Monte Carlo growth simulation
    dp,         \* data_processor: the last processFinancialData call and what it returned
    svc,        \* realtime_market_data: the service singleton and the last two getRealTimeWACC calls
    valuation,  \* the last equity bridge evaluated: function, arguments, result
    sim,        \* the component's Monte Carlo: position, draws, mcResults
    prod,       \* part_005: the audit trail of a ProductionValuationModel, the last array and result returned
    storage,    \* summit3 component: localStorage["cpp_session"]
    edge        \* medispa_analysis_simulation: the last runEdgeCaseAnalysis call

peVars == <<cfg, meta>>
uiVars == <<ui, dcfMemo>>
mulVars == <<multiple>>
cmdVars == <<proc>>
epvVars == <<epv>>
growthVars == <<growth>>
dpVars == <<dp>>
svcVars == <<svc>>
valVars == <<valuation>>
simVars == <<sim>>
prodVars == <<prod>>
storageVars == <<storage>>
edgeVars == <<edge>>
vars == <<cfg, meta, ui, dcfMemo, multiple, proc, epv, growth, dp, svc, valuation, sim, prod, storage, edge>>

-----------------------------------------------------------------------------
(* Exact rational arithmetic standing for float arithmetic.                *)

Abs(x) == IF x < 0 THEN -x ELSE x

RECURSIVE GCD(_, _)
GCD(a, b) == IF b = 0 THEN a ELSE GCD(b, a % b)

Q(n, d) ==
    LET g == GCD(Abs(n), Abs(d))
        s == IF d < 0 THEN -1 ELSE 1
    IN  <<(s * n) \div g, (s * d) \div g>>

Int2Q(n) == <<n, 1>>
Pct(p) == Q(p, 100)
Zero == <<0, 1>>
One == <<1, 1>>

RAdd(a, b) ==
    LET g == GCD(a[2], b[2])
        l == (a[2] \div g) * b[2]
    IN  Q(a[1] * (l \div a[2]) + b[1] * (l \div b[2]), l)
RNeg(a) == <<-a[1], a[2]>>
RSub(a, b) == RAdd(a, RNeg(b))
RMul(a, b) ==
    LET x == Q(a[1], b[2])
        y == Q(b[1], a[2])
    IN  Q(x[1] * y[1], x[2] * y[2])
RInv(a) == Q(a[2], a[1])
RDiv(a, b) == RMul(a, RInv(b))
\* an/ad < bn/bd for ad, bd > 0, by continued fractions (no products)
RECURSIVE CfLt(_, _, _, _)
CfLt(an, ad, bn, bd) ==
    LET qa == an \div ad
        qb == bn \div bd
        ra == an % ad
        rb == bn % bd
    IN  IF qa # qb THEN qa < qb
        ELSE IF rb = 0 THEN FALSE
        ELSE IF ra = 0 THEN TRUE
        ELSE CfLt(bd, rb, ad, ra)
\* a comparison with NaN is false, as in IEEE arithmetic
RLt(a, b) == a[2] # 0 /\ b[2] # 0 /\ CfLt(a[1], a[2], b[1], b[2])
RLe(a, b) == a[2] # 0 /\ b[2] # 0 /\ ~CfLt(b[1], b[2], a[1], a[2])
RMax(a, b) == IF RLt(a, b) THEN b ELSE a
RMin(a, b) == IF RLt(b, a) THEN b ELSE a
RAbs(a) == <<Abs(a[1]), a[2]>>
RClip(x, lo, hi) == RMin(RMax(x, lo), hi)

RECURSIVE RPow(_, _)
RPow(a, k) == IF k = 0 THEN One ELSE RMul(a, RPow(a, k - 1))

RECURSIVE RSum(_)
RSum(s) == IF s = <<>> THEN Zero ELSE RAdd(Head(s), RSum(Tail(s)))

-----------------------------------------------------------------------------
(* summit_pe.txt: ValuationModel                                           *)

MaxForecastYears == 2

NoResult == [status |-> "none"]

\* Optional[float] with no value; a float NaN.
None == <<>>
NaN == <<0, 0>>
IsNaN(x) == x[2] = 0

\* No analytics function of part_001 has been called.
NoCall ==
    [op |-> "none", pc |-> "done", fin |-> None, base |-> None,
     p1 |-> "", values1 |-> <<>>, p2 |-> "", values2 |-> <<>>,
     shocks |-> <<>>, n |-> 0, dists |-> <<>>, rng |-> 0, k |-> 0, evals |-> 0,
     passed |-> <<>>, base_vps |-> Zero, rows |-> <<>>, result |-> <<>>,
     prev |-> None]

\* No `sensitivity` or `mc` command has been started.
NoCommand ==
    [cmd |-> "none", pc |-> "done", k |-> 0, passed |-> <<>>, bars |-> <<>>,
     seed |-> <<>>, iterations |-> 0, rng |-> 0, evs |-> <<>>,
     pcts |-> <<>>, base_ev |-> Zero, error |-> <<>>]

\* data_processor: processFinancialData has not been called
NoProcessing == [input |-> [null |-> TRUE], dataType |-> "none", outcome |-> <<>>]

\* new ProductionValuationModel(): an empty AuditTrail with its session id
NewProduction(sessionId) ==
    [sessionId |-> sessionId, entries |-> <<>>, calls |-> 0, log |-> <<>>, out |-> <<>>]

\* localStorage holds no "cpp_session" item
NoSession == <<>>

\* runEdgeCaseAnalysis has not been called
NoAnalysis == [pc |-> "idle", baseParams |-> <<>>, scenarioIds |-> <<>>, threw |-> FALSE, scenarios |-> <<>>, summary |-> <<>>]

\* no equity bridge has been evaluated
NoValuation == [fn |-> "none"]

\* the component with no simulation run: mcResults = [], mcRunning = false,
\* and a run count restored from a stored session (500 when none is stored)
NoRuns ==
    [pc |-> "idle", mcRunning |-> FALSE, mcRuns |-> 1, captured |-> 0, i |-> 0,
     draws |-> <<>>, sims |-> <<>>, mcResults |-> <<>>]

\* realtime_market_data: module loaded, getInstance() never called
NoService ==
    [instance |-> <<>>, constructed |-> 0, timers |-> 0, returned |-> {},
     now |-> 0, forced |-> 0, pending |-> 0, resolved |-> <<>>, snap |-> <<>>,
     last |-> <<>>, prev |-> <<>>]

\* growth_sensitivity_analyzer: no simulation has been run
NoSimulation ==
    [pc |-> "done", iterations |-> 0, i |-> 0, rng |-> 0, results |-> <<>>,
     report |-> <<>>]

\* WACCSettings values a config file can hold.
WaccSettings(rf, erp, beta, size, spec, kd, d, tax) ==
    [risk_free_rate |-> rf, equity_risk_premium |-> erp, beta |-> beta,
     size_premium |-> size, specific_risk |-> spec,
     pre_tax_cost_of_debt |-> kd, target_debt_to_total_cap |-> d,
     tax_rate |-> tax]

\* ValuationModel.wacc
wacc(c) ==
    LET w == c.wacc
        ke == RAdd(RAdd(w.risk_free_rate, RMul(w.beta, w.equity_risk_premium)),
                   RAdd(w.size_premium, w.specific_risk))
        kd_after == RMul(w.pre_tax_cost_of_debt, RSub(One, w.tax_rate))
        D == w.target_debt_to_total_cap
        E == RSub(One, D)
    IN  RAdd(RMul(E, ke), RMul(D, kd_after))

\* The forecast loop of run_forecast for a configuration with one provider
\* type ("Injector (NP/PA/RN)") working one category ("Injectables"), one
\* variable expense ("Marketing"), one fixed expense, no equipment, no
\* membership or retail and no material costs (so no inventory, payables or
\* deferred revenue): the row of year y (idx = y - 1) holds revenue =
\* procedures at capacity * utilization * price, commission, variable and
\* fixed opex, ebitda, nopat, receivables, delta_nwc and ufcf.
TotalRevenue(c, idx) ==
    LET price == RMul(c.avg_price_year1, RPow(RAdd(One, c.price_inflation), idx))
    IN  RMul(RMul(c.procs_at_full_utilization, c.utilization), price)

\* ar = total_revenue * (dso / days)
Receivables(c, idx) == RMul(TotalRevenue(c, idx), Q(c.working_capital.dso_days, 365))

\* delta_nwc = (ar - ar_last) + ..., with ar_last = 0.0 before the first year
DeltaNwc(c, idx) ==
    RSub(Receivables(c, idx), IF idx = 0 THEN Zero ELSE Receivables(c, idx - 1))

OperatingRow(c, idx) ==
    LET revenue == TotalRevenue(c, idx)
        commission == RMul(revenue, c.commission)
        variable == RMul(revenue, c.marketing_pct)
        ebitda == RSub(RSub(RSub(revenue, commission), c.fixed_opex), variable)
        nopat == RMul(ebitda, RSub(One, c.corporate_tax_rate))
        delta_nwc == DeltaNwc(c, idx)
    IN  [year |-> idx + 1, total_revenue |-> revenue, ebitda |-> ebitda,
         nopat |-> nopat, delta_nwc |-> delta_nwc, ufcf |-> RSub(nopat, delta_nwc)]

OperatingRows(c) == [y \in 1..c.forecast_years |-> OperatingRow(c, y - 1)]

\* ev = pv_flows + pv_tv
EnterpriseValueFlowsOnly(pv_flows, pv_tv) == pv_flows

EnterpriseValue(pv_flows, pv_tv) == RAdd(pv_flows, pv_tv)

\* run_forecast, from "# Terminal value" on.  Python float division by zero
\* raises ZeroDivisionError; results[-1] of an empty list raises IndexError.
TerminalAndValue(c, results) ==
    LET w == wacc(c)
        years_len == Len(results)
        base == RAdd(One, w)
    IN  IF base = Zero /\ years_len > 0 THEN [status |-> "ZeroDivisionError"]
        ELSE
        LET pv_flows == RSum([i \in 1..years_len |->
                              RDiv(results[i].ufcf, RPow(base, i))])
        IN  IF years_len = 0 THEN [status |-> "IndexError"]
            ELSE
            LET last == results[years_len]
                g == c.terminal.gordon_growth
            IN  IF c.terminal.method = "gordon" /\ RSub(w, g) = Zero
                THEN [status |-> "ZeroDivisionError"]
                ELSE
                LET tv == IF c.terminal.method = "gordon"
                          THEN RDiv(RMul(last.ufcf, RAdd(One, g)), RSub(w, g))
                          ELSE RMul(last.ebitda, c.terminal.exit_ebitda_multiple)
                    pv_tv == RDiv(tv, RPow(base, years_len))
                    ev == EnterpriseValue(pv_flows, pv_tv)
                IN  [status |-> "ok", wacc |-> w, pv_flows |-> pv_flows,
                     terminal_value |-> tv, pv_terminal |-> pv_tv,
                     enterprise_value |-> ev,
                     equity_value |-> RSub(ev, c.net_debt)]

run_forecast(c) == TerminalAndValue(c, OperatingRows(c))

\* Configurations a config file can hold (money in hundreds of thousands).
PeWaccChoices ==
    { WaccSettings(Pct(4), Pct(5), One, Zero, Pct(1), Pct(10), Zero, Pct(25)),
      WaccSettings(Pct(2), Pct(4), One, Zero, Zero, Pct(4), Q(1, 2), Zero),
      WaccSettings(Pct(5), Pct(5), Int2Q(2), Pct(9), Pct(1), Pct(10), Zero, Pct(25)) }

PeConfig(w, method, g, mult, years, util, debt) ==
    [forecast_years |-> years, corporate_tax_rate |-> Pct(25),
     procs_at_full_utilization |-> Int2Q(10), avg_price_year1 |-> One,
     price_inflation |-> Pct(5), utilization |-> util, commission |-> Pct(30),
     fixed_opex |-> Int2Q(2), marketing_pct |-> Pct(8),
     wacc |-> w,
     terminal |-> [method |-> method, gordon_growth |-> g,
                   exit_ebitda_multiple |-> mult],
     working_capital |-> [dso_days |-> 0],
     net_debt |-> debt]

PeSampleConfig ==
    PeConfig(WaccSettings(Pct(4), Pct(5), One, Zero, Pct(1), Pct(10), Zero, Pct(25)),
             "exit", Pct(3), Q(19, 2), 1, Pct(80), Q(3, 2))

PeConfigs ==
    { PeConfig(w, method, g, mult, years, util, debt) :
        w \in PeWaccChoices, method \in {"gordon", "exit"},
        g \in {Pct(3), Pct(10), Pct(25)}, mult \in {Q(19, 2)},
        years \in 1..MaxForecastYears, util \in {Pct(80)},
        debt \in {Zero, Q(3, 2)} }

-----------------------------------------------------------------------------
(* summit3.md: the React component's DCF                                   *)

Horizon == 5

\* adjustedByYear[last].adjusted, 0 when there is no year
LastAdj(u) ==
    IF Len(u.yearsData) = 0 THEN Zero
    ELSE LET y == u.yearsData[Len(u.yearsData)]
         IN  RAdd(Int2Q(y.rawEbitda + y.addbacks),
                  RMul(Pct(u.synergyPct), Int2Q(y.rawEbitda)))

\* function clamp(n, min, max)
clamp(n, min, max) ==
    LET m == IF min > n THEN min ELSE n
    IN  IF max < m THEN max ELSE m

\* const dcf = useMemo(...).  Every input used here keeps 1 + dr > 0.
dcf(u) ==
    LET dr == Pct(u.discountRate)
        g == Pct(u.growthRate)
        capex == Pct(u.capexPct)
        t == Pct(u.taxRate)
        lastAdj == LastAdj(u)
        fcfs == [i \in 1..Horizon |->
                  RMul(RMul(RMul(lastAdj, RPow(RAdd(One, g), i)),
                            RSub(One, capex)), RSub(One, t))]
        npv == RSum([i \in 1..Horizon |-> RDiv(fcfs[i], RPow(RAdd(One, dr), i))])
        gTerm == Pct(u.terminalGrowth)
        terminalFCF == RMul(fcfs[Horizon], RAdd(One, gTerm))
        terminalValue == IF RLt(gTerm, dr) THEN RDiv(terminalFCF, RSub(dr, gTerm))
                         ELSE Zero
        terminalPV == RDiv(terminalValue, RPow(RAdd(One, dr), Horizon))
        ev == RAdd(npv, terminalPV)
        equity == RSub(RAdd(ev, Int2Q(u.assets)), Int2Q(u.liabilities))
    IN  [ev |-> ev, equity |-> equity, fcfs |-> fcfs, horizon |-> Horizon]

\* Year rows of a stored session (figures in hundreds of thousands).
UiYears ==
    << [year |-> 1, revenue |-> 20, rawEbitda |-> 3, addbacks |-> 1],
       [year |-> 2, revenue |-> 23, rawEbitda |-> 4, addbacks |-> 1],
       [year |-> 3, revenue |-> 26, rawEbitda |-> 4, addbacks |-> 0] >>

\* Payloads localStorage can hold under "cpp_session".
StoredSessions ==
    { [yearsData |-> UiYears, synergyPct |-> 0, assets |-> 8, liabilities |-> 10,
       growthRate |-> 0, discountRate |-> d, capexPct |-> 0, taxRate |-> 0,
       terminalGrowth |-> tg] :
        d \in {5, 25}, tg \in {0, 5} }

\* The hooks after a stored session has been loaded.
UiStart ==
    [yearsData |-> UiYears, synergyPct |-> 0, assets |-> 8, liabilities |-> 10,
     growthRate |-> 0, discountRate |-> 25, capexPct |-> 0, taxRate |-> 0,
     terminalGrowth |-> 0]

\* loadSession: every hook is set from the payload; the memo is recomputed by
\* the render that follows the state change.
LoadSession(s) ==
    /\ ui' = s
    /\ dcfMemo' = dcf(ui')
    /\ UNCHANGED <<peVars, mulVars, cmdVars, epvVars, growthVars, dpVars, svcVars, valVars, simVars, prodVars, storageVars, edgeVars>>

\* The sliders: onChange={(e) => setDiscountRate(Number(e.target.value))}, ...
SetDiscountRate(v) ==
    /\ ui' = [ui EXCEPT !.discountRate = v]
    /\ dcfMemo' = dcf(ui')
    /\ UNCHANGED <<peVars, mulVars, cmdVars, epvVars, growthVars, dpVars, svcVars, valVars, simVars, prodVars, storageVars, edgeVars>>

SetTerminalGrowth(v) ==
    /\ ui' = [ui EXCEPT !.terminalGrowth = v]
    /\ dcfMemo' = dcf(ui')
    /\ UNCHANGED <<peVars, mulVars, cmdVars, epvVars, growthVars, dpVars, svcVars, valVars, simVars, prodVars, storageVars, edgeVars>>

SetGrowthRate(v) ==
    /\ ui' = [ui EXCEPT !.growthRate = v]
    /\ dcfMemo' = dcf(ui')
    /\ UNCHANGED <<peVars, mulVars, cmdVars, epvVars, growthVars, dpVars, svcVars, valVars, simVars, prodVars, storageVars, edgeVars>>

\* handlePrompt on a prompt naming "growth" or "discount" with the number num
HandlePrompt(word, num) ==
    /\ ui' = IF word = "growth"
             THEN [ui EXCEPT !.growthRate = clamp(num, 0, 50)]
             ELSE [ui EXCEPT !.discountRate = clamp(num, 5, 40)]
    /\ dcfMemo' = dcf(ui')
    /\ UNCHANGED <<peVars, mulVars, cmdVars, epvVars, growthVars, dpVars, svcVars, valVars, simVars, prodVars, storageVars, edgeVars>>

\* `run`: load the config, run the forecast, print the summary.
Run ==
    /\ meta' = [cfg |-> cfg, out |-> run_forecast(cfg)]
    /\ UNCHANGED <<cfg, uiVars, mulVars, cmdVars, epvVars, growthVars, dpVars, svcVars, valVars, simVars, prodVars, storageVars, edgeVars>>

\* No command has run / the component has just mounted / no multiple asked.
PeIdle == cfg = PeSampleConfig /\ meta = [cfg |-> cfg, out |-> NoResult]
UiIdle == ui = UiStart /\ dcfMemo = dcf(ui)
MulIdle == multiple = [fn |-> "none"]
CmdIdle == proc = NoCommand
EpvIdle == epv = NoCall
GrowthIdle == growth = NoSimulation
DpIdle == dp = NoProcessing
SvcIdle == svc = NoService
ValIdle == valuation = NoValuation
SimIdle == sim = NoRuns
ProdIdle == prod = NewProduction("session_1")
StorageIdle == storage = NoSession
EdgeIdle == edge = NoAnalysis

DcfInit ==
    /\ cfg \in { c \in PeConfigs : c.net_debt = Q(3, 2) }
    /\ meta = [cfg |-> cfg, out |-> NoResult]
    /\ UiIdle
    /\ MulIdle
    /\ CmdIdle
    /\ EpvIdle
    /\ GrowthIdle
    /\ DpIdle
    /\ SvcIdle
    /\ ValIdle
    /\ SimIdle
    /\ ProdIdle
    /\ StorageIdle
    /\ EdgeIdle

DcfNext ==
    \/ Run
    \/ \E s \in StoredSessions : LoadSession(s)
    \/ \E v \in {10, 25} : SetDiscountRate(v)
    \/ \E v \in {0, 5} : SetTerminalGrowth(v)
    \/ \E v \in {0, 25} : SetGrowthRate(v)
    \/ \E word \in {"growth", "discount"}, num \in {0, 50} : HandlePrompt(word, num)

SpecDCF == DcfInit /\ [][DcfNext]_vars

\* Config files with receivable days and with rising, flat and falling prices.
WcConfigs ==
    { [c EXCEPT !.working_capital.dso_days = dso, !.price_inflation = infl] :
        c \in { k \in PeConfigs : k.net_debt = Zero },
        dso \in {0, 73}, infl \in {Pct(-10), Zero, Pct(5)} }

ForecastInit ==
    /\ cfg \in WcConfigs
    /\ meta = [cfg |-> cfg, out |-> NoResult]
    /\ UiIdle
    /\ MulIdle
    /\ CmdIdle
    /\ EpvIdle
    /\ GrowthIdle
    /\ DpIdle
    /\ SvcIdle
    /\ ValIdle
    /\ SimIdle
    /\ ProdIdle
    /\ StorageIdle
    /\ EdgeIdle

ForecastNext == Run

SpecForecast == ForecastInit /\ [][ForecastNext]_vars

-----------------------------------------------------------------------------
(* summit3.md: the React component's Monte Carlo simulation                *)

MaxMcRuns == 2

\* Values Math.random() can return (it returns any number in [0, 1)).
MathRandom == {Zero, Q(1, 2)}

\* avgAdjustedEBITDA: the mean of adjustedByYear[].adjusted, 0 without years
AvgAdjustedEBITDA(u) ==
    IF Len(u.yearsData) = 0 THEN Zero
    ELSE RDiv(RSum([k \in 1..Len(u.yearsData) |->
                      RAdd(Int2Q(u.yearsData[k].rawEbitda + u.yearsData[k].addbacks),
                           RMul(Pct(u.synergyPct), Int2Q(u.yearsData[k].rawEbitda)))]),
              Int2Q(Len(u.yearsData)))

\* mean + (Math.random() * 2 - 1) * width
Jitter(mean, r, width) == RAdd(mean, RMul(RSub(RMul(r, Int2Q(2)), One), width))

\* The four draws of one iteration: dr, gr, sy clamped, mul in 3x-6x.
SimDraw(u, r1, r2, r3, r4) ==
    [dr |-> RClip(Jitter(Pct(u.discountRate), r1, Pct(3)), Pct(8), Pct(30)),
     gr |-> RClip(Jitter(Pct(u.growthRate), r2, Pct(5)), Zero, Pct(35)),
     sy |-> RClip(Jitter(Pct(u.synergyPct), r3, Pct(5)), Zero, Pct(30)),
     mul |-> RAdd(Int2Q(3), RMul(r4, Int2Q(3)))]

\* dcfEV of one iteration: the 5-year DCF on the last adjusted EBITDA
McDcfEV(u, d) ==
    LET capex == Pct(u.capexPct)
        t == Pct(u.taxRate)
        adj0 == RMul(LastAdj(u), RAdd(One, d.sy))
        e == [y \in 1..Horizon |-> RMul(adj0, RPow(RAdd(One, d.gr), y))]
        fcf == [y \in 1..Horizon |-> RMul(RMul(e[y], RSub(One, capex)), RSub(One, t))]
        npv == RSum([y \in 1..Horizon |-> RDiv(fcf[y], RPow(RAdd(One, d.dr), y))])
        gTerm == RClip(Pct(u.terminalGrowth), Zero, Pct(5))
        terminal == IF RLt(gTerm, d.dr)
                    THEN RDiv(RMul(fcf[Horizon], RAdd(One, gTerm)), RSub(d.dr, gTerm))
                    ELSE Zero
    IN  RAdd(npv, RDiv(terminal, RPow(RAdd(One, d.dr), Horizon)))

\* compEV of one iteration
McCompEV(u, d) == RMul(AvgAdjustedEBITDA(u), d.mul)

\* ev = 0.65 * dcfEV + 0.35 * compEV
BlendedEV(dcfEV, compEV) == RAdd(RMul(Pct(65), dcfEV), RMul(Pct(35), compEV))

\* equity = ev + assets - liabilities
McEquity(u, ev) == RSub(RAdd(ev, Int2Q(u.assets)), Int2Q(u.liabilities))

\* loadSession: setMcRuns(s.mcRuns ?? mcRuns), the stored count taken as it
\* is (the "Runs" input clamps to 100..2000, loadSession does not)
SetMcRuns(v) ==
    /\ sim' = [sim EXCEPT !.mcRuns = v]
    /\ UNCHANGED <<peVars, uiVars, mulVars, cmdVars, epvVars, growthVars, dpVars, svcVars, valVars, prodVars, storageVars, edgeVars>>

\* runMonteCarlo without setMcRunning(true)
RunMonteCarloNoFlag ==
    /\ ~sim.mcRunning
    /\ sim' = [sim EXCEPT !.pc = "timer", !.captured = sim.mcRuns]
    /\ UNCHANGED <<peVars, uiVars, mulVars, cmdVars, epvVars, growthVars, dpVars, svcVars, valVars, prodVars, storageVars, edgeVars>>

\* runMonteCarlo, the click on "Run Sim" (disabled while mcRunning):
\* setMcRunning(true) and the timer is set; its callback closes over the
\* mcRuns of this render.
RunMonteCarlo ==
    /\ ~sim.mcRunning
    /\ sim' = [sim EXCEPT !.mcRunning = TRUE, !.pc = "timer", !.captured = sim.mcRuns]
    /\ UNCHANGED <<peVars, uiVars, mulVars, cmdVars, epvVars, growthVars, dpVars, svcVars, valVars, prodVars, storageVars, edgeVars>>

\* The timer callback starts: const sims = []
McTimeout ==
    /\ sim.pc = "timer"
    /\ sim' = [sim EXCEPT !.pc = "loop", !.i = 0, !.draws = <<>>, !.sims = <<>>]
    /\ UNCHANGED <<peVars, uiVars, mulVars, cmdVars, epvVars, growthVars, dpVars, svcVars, valVars, prodVars, storageVars, edgeVars>>

\* One turn of `for (let i = 0; i < mcRuns; i++)`
McIteration(r1, r2, r3, r4) ==
    /\ sim.pc = "loop" /\ sim.i < sim.captured
    /\ \E d \in {SimDraw(ui, r1, r2, r3, r4)} :
       \E ev \in {BlendedEV(McDcfEV(ui, d), McCompEV(ui, d))} :
         sim' = [sim EXCEPT !.draws = Append(@, d),
                            !.sims = Append(@, McEquity(ui, ev)),
                            !.i = @ + 1]
    /\ UNCHANGED <<peVars, uiVars, mulVars, cmdVars, epvVars, growthVars, dpVars, svcVars, valVars, prodVars, storageVars, edgeVars>>

\* setMcResults(sims); setMcRunning(false)
McFinish ==
    /\ sim.pc = "loop" /\ sim.i = sim.captured
    /\ sim' = [sim EXCEPT !.pc = "idle", !.mcResults = sim.sims, !.mcRunning = FALSE]
    /\ UNCHANGED <<peVars, uiVars, mulVars, cmdVars, epvVars, growthVars, dpVars, svcVars, valVars, prodVars, storageVars, edgeVars>>

\* The component with a stored session at the top discount rate.
SimInit ==
    /\ PeIdle
    /\ \E tg \in {0, 5} : ui = [UiStart EXCEPT !.discountRate = 40, !.terminalGrowth = tg]
    /\ dcfMemo = dcf(ui)
    /\ MulIdle
    /\ CmdIdle
    /\ EpvIdle
    /\ GrowthIdle
    /\ DpIdle
    /\ SvcIdle
    /\ ValIdle
    /\ SimIdle
    /\ ProdIdle
    /\ StorageIdle
    /\ EdgeIdle

SimNext ==
    \/ \E v \in 1..MaxMcRuns : SetMcRuns(v)
    \/ RunMonteCarlo
    \/ McTimeout
    \/ \E r1 \in MathRandom, r2 \in MathRandom, r3 \in MathRandom, r4 \in MathRandom :
         McIteration(r1, r2, r3, r4)
    \/ McFinish

SpecSim == SimInit /\ [][SimNext]_vars

-----------------------------------------------------------------------------
(* Market multiples: unnamed/part_002, data_processor.js,                  *)
(* realtime_market_data.ts                                                 *)

\* locationMultipliers[location] || 1.0
LocationMultiplier(location) ==
    CASE location = "manhattan" -> Pct(115)
      [] location = "beverly_hills" -> Pct(132)
      [] location = "san_francisco" -> Pct(120)
      [] location = "miami" -> Pct(108)
      [] location = "boston" -> Pct(112)
      [] location = "dallas" -> Pct(105)
      [] location = "atlanta" -> Pct(95)
      [] location = "phoenix" -> Pct(85)
      [] OTHER -> One

BaseMultiple == Q(82, 10)

\* calculateEnhancedMultiple(deal) of the deal simulator
calculateEnhancedMultiple(deal) ==
    LET locationAdj == LocationMultiplier(deal.location)
        sizeAdj == IF deal.ebitda > 2000000 THEN Pct(125)
                   ELSE IF deal.ebitda > 1000000 THEN Pct(115) ELSE Pct(95)
        margin == deal.keyMetrics.ebitdaMargin
        efficiencyAdj == IF RLt(Pct(28), margin) THEN Pct(112)
                         ELSE IF RLt(Pct(22), margin) THEN Pct(106)
                         ELSE IF RLt(Pct(18), margin) THEN Pct(102)
                         ELSE IF RLt(Pct(15), margin) THEN One ELSE Pct(95)
        growthAdj == RAdd(One,
                          RMax(Pct(-20),
                               RMin(Pct(30),
                                    RMul(RSub(deal.keyMetrics.growth, Pct(8)),
                                         Int2Q(2)))))
        businessModelAdj == IF deal.keyMetrics.locations > 2 THEN Pct(103)
                            ELSE IF deal.keyMetrics.locations = 1 THEN Pct(98)
                            ELSE One
        maturityAdj == IF deal.marketContext.marketMaturity = "growing" THEN Pct(102)
                       ELSE IF deal.marketContext.marketMaturity = "saturated"
                            THEN Pct(98) ELSE One
        competitionAdj ==
            IF deal.marketContext.competitionLevel = "very_high" THEN Pct(97)
            ELSE IF deal.marketContext.competitionLevel = "high" THEN Pct(99)
            ELSE IF deal.marketContext.competitionLevel = "moderate" THEN One
            ELSE Pct(102)
    IN  RMul(RMul(RMul(RMul(RMul(RMul(RMul(BaseMultiple, locationAdj), sizeAdj),
                                 efficiencyAdj), growthAdj), businessModelAdj),
                  maturityAdj), competitionAdj)

\* executeAnalysis: enhancedMultiple = baseMultiple * locationMultiplier
\* (its table also lists suburban_standard: 1.00, the fallback value)
executeAnalysisMultiple(location) == RMul(BaseMultiple, LocationMultiplier(location))

\* getRealTimeMarketMultiple(ebitda, marketData)
getRealTimeMarketMultiple(data) ==
    LET deals == data.transactionActivity.medispaDeals
        activityWeight == RMin(One, Q(deals.count, 10))
        baseMultiple == RAdd(RMul(data.industryMultiples.medispa.ebitdaMultiple,
                                  RSub(One, activityWeight)),
                             RMul(deals.medianMultiple, activityWeight))
        economicMultiplier ==
            IF data.economicIndicators.consumerConfidence > 100 THEN Pct(105)
            ELSE IF data.economicIndicators.consumerConfidence < 85 THEN Pct(95)
            ELSE One
        rateAdjustment == IF RLt(Pct(5), data.riskFreeRate.value) THEN Pct(90)
                          ELSE IF RLt(data.riskFreeRate.value, Pct(3)) THEN Pct(110)
                          ELSE One
        finalMultiple == RMul(RMul(baseMultiple, economicMultiplier), rateAdjustment)
    IN  RMax(Int2Q(6), RMin(Int2Q(15), finalMultiple))

\* Number of locations, market maturity and competition level of a deal: at
\* most one of the three away from its neutral value (2, "mature",
\* "moderate"), which keeps the exact product within machine integers.
DealContexts ==
    { <<2, "mature", "moderate">>, <<1, "mature", "moderate">>,
      <<2, "growing", "moderate">>, <<2, "mature", "very_high">> }

\* Deals the simulator can be given.
Deals ==
    { [location |-> loc, ebitda |-> e,
       keyMetrics |-> [ebitdaMargin |-> mg, growth |-> gr, locations |-> ctx[1]],
       marketContext |-> [marketMaturity |-> ctx[2], competitionLevel |-> ctx[3]]] :
        loc \in {"beverly_hills", "phoenix", "austin"},
        e \in {800000, 2500000},
        mg \in {Pct(12), Pct(30)},
        gr \in {Pct(-5), Pct(8), Pct(25)},
        ctx \in DealContexts }

Locations == {"manhattan", "beverly_hills", "san_francisco", "miami", "boston",
              "dallas", "atlanta", "phoenix", "suburban_standard", "austin"}

\* Market snapshots a caller can pass as marketData.
MarketSnapshots ==
    { [riskFreeRate |-> [value |-> rf],
       industryMultiples |-> [medispa |-> [ebitdaMultiple |-> em]],
       economicIndicators |-> [consumerConfidence |-> cc],
       transactionActivity |-> [medispaDeals |-> [count |-> n, medianMultiple |-> mm]]] :
        rf \in {Pct(2), Pct(4), Pct(6)},
        em \in {Int2Q(5), Q(82, 10), Int2Q(16)},
        cc \in {80, 95, 105},
        n \in {5, 12},
        mm \in {Int2Q(16)} }

\* analyzeDeal: enhancedMultiple = calculateEnhancedMultiple(deal)
AnalyzeDeal(deal) ==
    /\ multiple' = [fn |-> "calculateEnhancedMultiple", arg |-> deal,
                    value |-> calculateEnhancedMultiple(deal)]
    /\ UNCHANGED <<peVars, uiVars, cmdVars, epvVars, growthVars, dpVars, svcVars, valVars, simVars, prodVars, storageVars, edgeVars>>

ExecuteAnalysis(location) ==
    /\ multiple' = [fn |-> "executeAnalysis", arg |-> location,
                    value |-> executeAnalysisMultiple(location)]
    /\ UNCHANGED <<peVars, uiVars, cmdVars, epvVars, growthVars, dpVars, svcVars, valVars, simVars, prodVars, storageVars, edgeVars>>

GetRealTimeMarketMultiple(data) ==
    /\ multiple' = [fn |-> "getRealTimeMarketMultiple", arg |-> data,
                    value |-> getRealTimeMarketMultiple(data)]
    /\ UNCHANGED <<peVars, uiVars, cmdVars, epvVars, growthVars, dpVars, svcVars, valVars, simVars, prodVars, storageVars, edgeVars>>

MulInit == PeIdle /\ UiIdle /\ MulIdle /\ CmdIdle /\ EpvIdle /\ GrowthIdle /\ DpIdle /\ SvcIdle /\ ValIdle /\ SimIdle /\ ProdIdle /\ StorageIdle /\ EdgeIdle

MulNext ==
    \/ \E deal \in Deals : AnalyzeDeal(deal)
    \/ \E location \in Locations : ExecuteAnalysis(location)
    \/ \E data \in MarketSnapshots : GetRealTimeMarketMultiple(data)

SpecMultiple == MulInit /\ [][MulNext]_vars

-----------------------------------------------------------------------------
(* summit_pe.txt: the `sensitivity` and `mc` commands                      *)

MaxIterations == 3

\* c = json.loads(json.dumps(asdict(cfg))): a deep copy, here the value itself
DeepCopy(c) == c

\* _set_wacc: nudge specific_risk by the gap to the desired WACC
set_wacc(cdict, new_wacc) ==
    LET curr == wacc(cdict)
        delta == RSub(new_wacc, curr)
    IN  [cdict EXCEPT !.wacc.specific_risk = RMax(Zero, RAdd(@, delta))]

\* _set_exit
set_exit(cdict, new_mult) ==
    [cdict EXCEPT !.terminal.method = "exit",
                  !.terminal.exit_ebitda_multiple = new_mult]

\* _set_util on "Injector (NP/PA/RN)"
set_util(cdict, new_util) == [cdict EXCEPT !.utilization = new_util]

\* _set_comm on "Injector (NP/PA/RN)" / "Injectables"
set_comm(cdict, new_comm) == [cdict EXCEPT !.commission = new_comm]

\* _set_varpct on "Marketing"
set_varpct(cdict, new_pct) == [cdict EXCEPT !.marketing_pct = new_pct]

\* _set_cat_infl on "Injectables"
set_cat_infl(cdict, new_infl) == [cdict EXCEPT !.price_inflation = new_infl]

\* The sens list of `sensitivity`: (name, low, high); the mutator is Mutate.
Sens(base) ==
    << [name |-> "WACC", low |-> RMul(wacc(base), Pct(80)),
        high |-> RMul(wacc(base), Pct(120))],
       [name |-> "Exit Multiple",
        low |-> RMul(base.terminal.exit_ebitda_multiple, Pct(80)),
        high |-> RMul(base.terminal.exit_ebitda_multiple, Pct(120))],
       [name |-> "Injector Utilization", low |-> Pct(65), high |-> Pct(90)],
       [name |-> "Injector Commission (Injectables)",
        low |-> Pct(25), high |-> Pct(40)],
       [name |-> "Marketing % Rev", low |-> Pct(5), high |-> Pct(12)],
       [name |-> "Injectables Price Inflation", low |-> Pct(1), high |-> Pct(5)] >>

Mutate(name, c, v) ==
    CASE name = "WACC" -> set_wacc(c, v)
      [] name = "Exit Multiple" -> set_exit(c, v)
      [] name = "Injector Utilization" -> set_util(c, v)
      [] name = "Injector Commission (Injectables)" -> set_comm(c, v)
      [] name = "Marketing % Rev" -> set_varpct(c, v)
      [] name = "Injectables Price Inflation" -> set_cat_infl(c, v)

\* run_with(mutator): clone, mutate, rebuild, run; `c` is the configuration
\* handed to ValuationModel.
run_with(base, name, v) ==
    CHOOSE r \in { [driver |-> name, c |-> c, out |-> run_forecast(c)] :
                     c \in {Mutate(name, DeepCopy(base), v)} } : TRUE

\* numpy's global generator: a state in 0 .. NpRngModulus - 1 stepped by a
\* full-period congruence; a draw reads a standard-normal deviate (in units
\* of sigma) off the state.
NpRngModulus == 8

NpRngStates == 0..(NpRngModulus - 1)

NpDeviates == <<0, 4, -4, 1, -1, 8, -8, 2>>

NpNext(s) == (5 * s + 3) % NpRngModulus

\* np.random.seed(seed) when a seed is given (<<n>>); with no seed (<<>>) the
\* generator keeps the state the operating system's entropy gave it.
NpSeed(seed) == IF seed = <<>> THEN NpRngStates ELSE {seed[1] % NpRngModulus}

\* np.random.normal(loc, scale)
NpNormal(s, loc, scale) ==
    [value |-> RAdd(loc, RMul(scale, Int2Q(NpDeviates[s + 1]))), rng |-> NpNext(s)]

\* One iteration of the mc loop up to the rebuild: the draws, clipped, applied
\* to a fresh copy of base.
McDraw(base, s) ==
    LET c0 == DeepCopy(base)
        d1 == NpNormal(s, wacc(base), Q(75, 10000))
        wacc_draw == RClip(d1.value, Pct(7), Pct(20))
        c1 == set_wacc(c0, wacc_draw)
        isExit == c1.terminal.method = "exit"
        d2 == IF isExit
              THEN NpNormal(d1.rng, c1.terminal.exit_ebitda_multiple, Q(12, 10))
              ELSE [value |-> Zero, rng |-> d1.rng]
        exit_draw == RClip(d2.value, Int2Q(6), Int2Q(14))
        c2 == IF isExit THEN set_exit(c1, exit_draw) ELSE c1
        d3 == NpNormal(d2.rng, Pct(80), Pct(5))
        util_draw == RClip(d3.value, Pct(60), Pct(92))
        c3 == set_util(c2, util_draw)
        d4 == NpNormal(d3.rng, Pct(3), Pct(1))
        infl_draw == RClip(d4.value, Q(5, 1000), Pct(6))
        c4 == set_cat_infl(c3, infl_draw)
        d5 == NpNormal(d4.rng, Pct(8), Q(15, 1000))
        mkt_draw == RClip(d5.value, Pct(4), Pct(14))
        c5 == set_varpct(c4, mkt_draw)
    IN  [driver |-> "mc", c |-> c5, rng |-> d5.rng, exit_drawn |-> isExit]

\* Insert x into an ascending sequence.
RECURSIVE Insert(_, _)
Insert(x, s) ==
    IF s = <<>> THEN <<x>>
    ELSE IF RLe(x, Head(s)) THEN <<x>> \o s
    ELSE <<Head(s)>> \o Insert(x, Tail(s))

AsGiven(a) == a

\* np.percentile orders the data before it interpolates.
RECURSIVE Sorted(_)
Sorted(a) == IF a = <<>> THEN <<>> ELSE Insert(Head(a), Sorted(Tail(a)))

\* np.percentile(a, q), linear interpolation; a is not empty.
NpPercentile(a, q) ==
    LET srt == Sorted(a)
        n == Len(srt)
        lo == ((n - 1) * q) \div 100
        frac == RSub(Q((n - 1) * q, 100), Int2Q(lo))
        hi == IF lo + 1 < n THEN lo + 1 ELSE lo
    IN  RAdd(srt[lo + 1], RMul(frac, RSub(srt[hi + 1], srt[lo + 1])))

\* The message Python gives the exception run_forecast raises.
ExceptionMessage(what) ==
    IF what = "ZeroDivisionError" THEN "float division by zero"
    ELSE "list index out of range"

\* An exception leaves the command: no try statement surrounds the loops, so
\* the process ends with the exception as run_forecast raised it, its type
\* and message, with no note added on the way out.
Raised(p, what, passed) ==
    [p EXCEPT !.pc = what, !.passed = passed,
              !.error = [type |-> what, message |-> ExceptionMessage(what),
                         notes |-> <<>>]]

\* `sensitivity`, up to the base run.
SensitivityStart ==
    /\ proc.pc # "run"
    /\ \E out \in {run_forecast(cfg)} :
         \E p \in {[NoCommand EXCEPT !.cmd = "sensitivity", !.pc = "run", !.k = 1]} :
           proc' = IF out.status # "ok" THEN Raised(p, out.status, <<>>)
                   ELSE [p EXCEPT !.base_ev = out.enterprise_value]
    /\ UNCHANGED <<peVars, uiVars, mulVars, epvVars, growthVars, dpVars, svcVars, valVars, simVars, prodVars, storageVars, edgeVars>>

\* What an evaluation was handed: the driver and the configuration.
Seen(r) == [driver |-> r.driver, c |-> r.c]

\* One turn of `for name, mut, low, high in sens`; the printing loop that
\* follows the last turn changes nothing.
SensitivityStep ==
    /\ proc.cmd = "sensitivity" /\ proc.pc = "run"
    /\ \E e \in {Sens(cfg)[proc.k]} :
       \E lo \in {run_with(cfg, e.name, e.low)} :
       \E hi \in {run_with(cfg, e.name, e.high)} :
         proc' =
             IF lo.out.status # "ok"
             THEN Raised(proc, lo.out.status, <<Seen(lo)>>)
             ELSE IF hi.out.status # "ok"
             THEN Raised(proc, hi.out.status, <<Seen(lo), Seen(hi)>>)
             ELSE [proc EXCEPT
                     !.bars = Append(@, [name |-> e.name,
                                         lo_ev |-> lo.out.enterprise_value,
                                         hi_ev |-> hi.out.enterprise_value]),
                     !.passed = <<Seen(lo), Seen(hi)>>,
                     !.k = @ + 1,
                     !.pc = IF proc.k = Len(Sens(cfg)) THEN "done" ELSE "run"]
    /\ UNCHANGED <<peVars, uiVars, mulVars, epvVars, growthVars, dpVars, svcVars, valVars, simVars, prodVars, storageVars, edgeVars>>

\* `mc`, up to the base run.
McStart(seed, iterations) ==
    /\ proc.pc # "run"
    /\ \E s \in NpSeed(seed) :
       \E out \in {run_forecast(cfg)} :
       \E p \in {[NoCommand EXCEPT !.cmd = "mc", !.pc = "run", !.seed = seed,
                                   !.iterations = iterations, !.rng = s]} :
         proc' = IF out.status # "ok" THEN Raised(p, out.status, <<>>)
                 ELSE [p EXCEPT !.base_ev = out.enterprise_value]
    /\ UNCHANGED <<peVars, uiVars, mulVars, epvVars, growthVars, dpVars, svcVars, valVars, simVars, prodVars, storageVars, edgeVars>>

\* One turn of `for _ in range(iterations)`.
McIterate ==
    /\ proc.cmd = "mc" /\ proc.pc = "run" /\ proc.k < proc.iterations
    /\ \E d \in {McDraw(cfg, proc.rng)} :
       \E out \in {run_forecast(d.c)} :
         proc' =
             IF out.status # "ok"
             THEN Raised([proc EXCEPT !.rng = d.rng], out.status, <<Seen(d)>>)
             ELSE [proc EXCEPT !.evs = Append(@, out.enterprise_value),
                               !.passed = <<Seen(d)>>, !.rng = d.rng,
                               !.k = @ + 1]
    /\ UNCHANGED <<peVars, uiVars, mulVars, epvVars, growthVars, dpVars, svcVars, valVars, simVars, prodVars, storageVars, edgeVars>>

\* After the loop: p5, p50, p95 = np.percentile(evs, [5, 50, 95]) and the
\* printed report.
McReport ==
    /\ proc.cmd = "mc" /\ proc.pc = "run" /\ proc.k = proc.iterations
    /\ proc' = [proc EXCEPT !.pc = "done",
                            !.pcts = <<NpPercentile(proc.evs, 5),
                                       NpPercentile(proc.evs, 50),
                                       NpPercentile(proc.evs, 95)>>]
    /\ UNCHANGED <<peVars, uiVars, mulVars, epvVars, growthVars, dpVars, svcVars, valVars, simVars, prodVars, storageVars, edgeVars>>

\* Config files the two commands are run on.
PeCommandConfigs ==
    { c \in PeConfigs : c.forecast_years = 1 /\ c.net_debt = Zero }
      \cup { PeConfig(WaccSettings(Pct(4), Pct(5), One, Zero, Pct(1), Pct(10), Zero, Pct(25)),
                      "gordon", Pct(9), Q(19, 2), 1, Pct(80), Zero) }

CmdInit ==
    /\ cfg \in PeCommandConfigs
    /\ meta = [cfg |-> cfg, out |-> NoResult]
    /\ UiIdle
    /\ MulIdle
    /\ CmdIdle
    /\ EpvIdle
    /\ GrowthIdle
    /\ DpIdle
    /\ SvcIdle
    /\ ValIdle
    /\ SimIdle
    /\ ProdIdle
    /\ StorageIdle
    /\ EdgeIdle

CmdNext ==
    \/ SensitivityStart
    \/ SensitivityStep
    \/ \E seed \in {<<>>, <<1>>, <<2>>}, iterations \in 1..MaxIterations :
         McStart(seed, iterations)
    \/ McIterate
    \/ McReport

SpecPE == CmdInit /\ [][CmdNext]_vars

-----------------------------------------------------------------------------
(* unnamed/part_001: the EPV model and its analytics                       *)

MaxGridLen == 2
MaxSims == 2

\* The EPVInputs fields the valuation reads when the maintenance method is
\* "depr_factor" and nothing is capitalized.
EPVInputs(normalized_margin, tax_rate, rf_rate, equity_weight, maint_factor, wacc_override) ==
    [normalized_margin |-> normalized_margin, tax_rate |-> tax_rate,
     rf_rate |-> rf_rate, mrp |-> Pct(5), beta |-> One,
     cost_of_debt |-> Pct(5), use_capm |-> TRUE,
     equity_weight |-> equity_weight, maintenance_method |-> "depr_factor",
     maint_factor |-> maint_factor, excess_cash_pct |-> One,
     rd_capitalize |-> FALSE, sga_capitalize |-> FALSE,
     other_adjustments |-> Zero, use_manual_shares |-> FALSE,
     manual_shares |-> None, wacc_override |-> wacc_override]

\* What compute_epv reads off the downloaded statements: the medians of
\* revenue, EBIT margin and D&A, the cash, debt, long-term investments and
\* the share count (None when the quote has none).
Financials(shares) ==
    [norm_rev |-> Int2Q(100), hist_margin |-> Pct(15), norm_da |-> Int2Q(10),
     cash |-> Int2Q(5), total_debt |-> Int2Q(20), lti |-> Zero,
     shares |-> shares]

\* np.clip(val, lo, hi) with lo = -inf / hi = inf when absent
Clip(val, lo, hi) ==
    LET a == IF lo = None THEN val ELSE RMax(val, lo)
    IN  IF hi = None THEN a ELSE RMin(a, hi)

compute_wacc(rf, mrp, beta, cost_of_debt, tax_rate, equity_weight, wacc_override, use_capm) ==
    IF wacc_override # None /\ RLt(Zero, wacc_override) THEN wacc_override
    ELSE LET re == IF use_capm THEN RAdd(rf, RMul(beta, mrp)) ELSE beta
             ew == RClip(equity_weight, Zero, One)
             dw == RSub(One, ew)
             rd_after_tax == RMul(cost_of_debt, RSub(One, tax_rate))
         IN  RAdd(RMul(re, ew), RMul(rd_after_tax, dw))

\* normalized_values: the margin is the user's when given and positive
normalized_margin(fin, inputs) ==
    IF inputs.normalized_margin # None /\ RLt(Zero, inputs.normalized_margin)
    THEN inputs.normalized_margin
    ELSE fin.hist_margin

\* compute_epv(ticker, fin, inputs): the outputs the analytics read
compute_epv(fin, inputs) ==
    LET norm_margin == normalized_margin(fin, inputs)
        norm_ebit == RMul(fin.norm_rev, norm_margin)
        maint_capex == RMul(fin.norm_da, inputs.maint_factor)
        pre_tax_operating == RSub(RAdd(norm_ebit, fin.norm_da), maint_capex)
        tax_rate == RClip(inputs.tax_rate, Zero, Q(1, 2))
        epo_after_tax == RMul(pre_tax_operating, RSub(One, tax_rate))
        w == RMax(Pct(3),
                  compute_wacc(inputs.rf_rate, inputs.mrp, inputs.beta,
                               inputs.cost_of_debt, tax_rate,
                               inputs.equity_weight, inputs.wacc_override,
                               inputs.use_capm))
        value_operations == RDiv(RMax(Zero, epo_after_tax), w)
        excess_cash == RMul(fin.cash, inputs.excess_cash_pct)
        equity_value == RAdd(RSub(RAdd(RAdd(value_operations, excess_cash),
                                       fin.lti), fin.total_debt),
                             inputs.other_adjustments)
        shares == IF inputs.use_manual_shares /\ inputs.manual_shares # None
                     /\ RLt(Zero, inputs.manual_shares)
                  THEN inputs.manual_shares
                  ELSE IF fin.shares = None \/ fin.shares = Zero THEN NaN
                  ELSE fin.shares
        value_per_share == IF ~IsNaN(shares) /\ RLt(Zero, shares)
                           THEN RDiv(equity_value, shares) ELSE NaN
    IN  [wacc |-> w, normalized_margin |-> norm_margin,
         value_operations |-> value_operations,
         cash_adjusted |-> excess_cash,
         non_operating_assets |-> fin.lti,
         debt |-> fin.total_debt,
         other_adjustments |-> inputs.other_adjustments,
         equity_value |-> equity_value,
         value_per_share |-> IF value_per_share = Zero THEN NaN
                             ELSE value_per_share]

\* float subtraction
FSub(a, b) == IF IsNaN(a) \/ IsNaN(b) THEN NaN ELSE RSub(a, b)

\* inp = EPVInputs(**vars(base_inputs)): a new object with the same fields
CopyInputs(base_inputs) == base_inputs

\* setattr(inp, param, value)
setattr(inp, param, value) == [inp EXCEPT ![param] = value]

\* sensitivity_grid: the turn number k (from 0) of the nested loops is the
\* turn k div n of `for v1 in values1` and k mod n of `for v2 in values2`.
CellIndexInnerFirst(k, n, m) == <<(k % m) + 1, (k \div m) + 1>>

CellIndex(k, n, m) == <<(k \div n) + 1, (k % n) + 1>>

\* sensitivity_grid: the inputs of one cell
GridInputsCrossed(base_inputs, vary_param1, v1, vary_param2, v2) ==
    setattr(setattr(CopyInputs(base_inputs), vary_param1, v2), vary_param2, v1)

GridInputs(base_inputs, vary_param1, v1, vary_param2, v2) ==
    setattr(setattr(CopyInputs(base_inputs), vary_param1, v1), vary_param2, v2)

\* tornado_data: df.sort_values(by=["high"], ascending=False); NaN goes last,
\* and on so few rows the sort keeps equal keys in their order.
HighBefore(r, h) ==
    IF IsNaN(r.high) THEN IsNaN(h.high)
    ELSE IF IsNaN(h.high) THEN TRUE
    ELSE RLe(h.high, r.high)

RECURSIVE InsertByHigh(_, _)
InsertByHigh(r, s) ==
    IF s = <<>> THEN <<r>>
    ELSE IF HighBefore(r, Head(s)) THEN <<r>> \o s
    ELSE <<Head(s)>> \o InsertByHigh(r, Tail(s))

RECURSIVE sort_values(_)
sort_values(records) ==
    IF records = <<>> THEN <<>>
    ELSE InsertByHigh(Head(records), sort_values(Tail(records)))

\* np.random.default_rng(seed): a fresh generator
DefaultRngUnseeded(seed) == NpRngStates

DefaultRng(seed) == {seed % NpRngModulus}

\* monte_carlo: `for param, spec in dists.items()` from entry k on
RECURSIVE ApplyDists(_, _, _, _)
ApplyDists(inp, dists, k, rng) ==
    IF k > Len(dists) THEN [inp |-> inp, rng |-> rng]
    ELSE LET spec == dists[k]
             draw == NpNormal(rng, spec.mu, spec.sigma)
             val == Clip(draw.value, spec.min, spec.max)
         IN  ApplyDists(setattr(inp, spec.param, val), dists, k + 1, draw.rng)

\* pd.DataFrame({...}).dropna()
dropna(samples) == SelectSeq(samples, LAMBDA x : ~IsNaN(x))

\* The script's `inputs` and `fin`: the sidebar settings and the statements.
EpvSessions ==
    { [NoCall EXCEPT !.fin = Financials(sh),
                     !.base = EPVInputs(nm, Pct(25), Pct(4), Pct(80), One, wo)] :
        sh \in {None, Int2Q(10)}, nm \in {None, Pct(20)}, wo \in {None, Pct(10)} }

\* The state a call starts from: the session, and the Monte Carlo run that
\* has just returned, if the previous call was one.
Called(op) ==
    [NoCall EXCEPT !.op = op, !.pc = "run", !.fin = epv.fin, !.base = epv.base,
                   !.prev = IF op = "mc" /\ epv.op = "mc" /\ epv.pc = "done"
                            THEN [n |-> epv.n, dists |-> epv.dists,
                                  rows |-> epv.rows, result |-> epv.result]
                            ELSE None]

\* Value lists as np.linspace makes them: increasing, here of 1..MaxGridLen
\* points out of three.
Increasing(S) ==
    { s \in UNION { [1..len -> S] : len \in 1..MaxGridLen } :
        \A i \in 1..(Len(s) - 1) : RLt(s[i], s[i + 1]) }

GridAxes ==
    { <<"wacc_override", Increasing({Pct(8), Pct(10), Pct(12)}),
        "normalized_margin", Increasing({Pct(10), Pct(20), Pct(30)})>>,
      <<"wacc_override", Increasing({Pct(8), Pct(10), Pct(12)}),
        "maint_factor", Increasing({Q(1, 2), One, Q(3, 2)})>> }

\* sensitivity_grid(base_inputs, fin, vary_param1, values1, vary_param2,
\* values2), up to the loops.
GridCall(vary_param1, values1, vary_param2, values2) ==
    /\ epv.op # "none" => epv.pc # "run"
    /\ epv.base # None
    /\ epv' = [Called("sensitivity_grid") EXCEPT
                 !.p1 = vary_param1, !.values1 = values1,
                 !.p2 = vary_param2, !.values2 = values2]
    /\ UNCHANGED <<peVars, uiVars, mulVars, cmdVars, growthVars, dpVars, svcVars, valVars, simVars, prodVars, storageVars, edgeVars>>

\* One turn of the inner loop; after the last the rows are returned as the
\* DataFrame.
GridCell ==
    /\ epv.op = "sensitivity_grid" /\ epv.pc = "run"
    /\ \E ij \in {CellIndex(epv.k, Len(epv.values2), Len(epv.values1))} :
       \E inp \in {GridInputs(epv.base, epv.p1, epv.values1[ij[1]],
                              epv.p2, epv.values2[ij[2]])} :
       \E out \in {compute_epv(epv.fin, inp)} :
         epv' = [epv EXCEPT
                   !.rows = Append(@, [p1 |-> epv.values1[ij[1]],
                                       p2 |-> epv.values2[ij[2]],
                                       value_per_share |-> out.value_per_share]),
                   !.passed = <<inp>>,
                   !.evals = @ + 1,
                   !.k = @ + 1,
                   !.result = IF epv.k + 1 = Len(epv.values1) * Len(epv.values2)
                              THEN Append(epv.rows,
                                          [p1 |-> epv.values1[ij[1]],
                                           p2 |-> epv.values2[ij[2]],
                                           value_per_share |-> out.value_per_share])
                              ELSE <<>>,
                   !.pc = IF epv.k + 1 = Len(epv.values1) * Len(epv.values2)
                          THEN "done" ELSE "run"]
    /\ UNCHANGED <<peVars, uiVars, mulVars, cmdVars, growthVars, dpVars, svcVars, valVars, simVars, prodVars, storageVars, edgeVars>>

\* shock_defaults of the script, and a shorter dict
shock_defaults ==
    << [param |-> "normalized_margin", down |-> Pct(-20), up |-> Pct(20)],
       [param |-> "maint_factor", down |-> Pct(-30), up |-> Pct(30)],
       [param |-> "tax_rate", down |-> Pct(-20), up |-> Pct(20)],
       [param |-> "rf_rate", down |-> Pct(-30), up |-> Pct(30)],
       [param |-> "mrp", down |-> Pct(-30), up |-> Pct(30)],
       [param |-> "beta", down |-> Pct(-30), up |-> Pct(30)],
       [param |-> "cost_of_debt", down |-> Pct(-30), up |-> Pct(30)],
       [param |-> "equity_weight", down |-> Pct(-20), up |-> Pct(20)] >>

ShockDicts ==
    { shock_defaults,
      << [param |-> "rf_rate", down |-> Pct(-30), up |-> Pct(30)],
         [param |-> "tax_rate", down |-> Pct(-20), up |-> Pct(20)],
         [param |-> "wacc_override", down |-> Pct(-20), up |-> Pct(20)] >> }

\* tornado_data(base_inputs, fin, shocks), up to the loop.
TornadoCall(shocks) ==
    /\ epv.op # "none" => epv.pc # "run"
    /\ epv.base # None
    /\ \E base_out \in {compute_epv(epv.fin, epv.base)} :
         epv' = [Called("tornado_data") EXCEPT
                   !.shocks = shocks, !.evals = 1,
                   !.base_vps = base_out.value_per_share]
    /\ UNCHANGED <<peVars, uiVars, mulVars, cmdVars, growthVars, dpVars, svcVars, valVars, simVars, prodVars, storageVars, edgeVars>>

\* One turn of `for param, (down, up) in shocks.items()`; None * float
\* raises TypeError.
TornadoShock ==
    /\ epv.op = "tornado_data" /\ epv.pc = "run" /\ epv.k < Len(epv.shocks)
    /\ \E sh \in {epv.shocks[epv.k + 1]} :
         IF epv.base[sh.param] = None
         THEN epv' = [epv EXCEPT !.pc = "TypeError", !.passed = <<>>]
         ELSE
           \E inp_low \in {setattr(CopyInputs(epv.base), sh.param,
                                   RMul(epv.base[sh.param], RAdd(One, sh.down)))} :
           \E inp_high \in {setattr(CopyInputs(epv.base), sh.param,
                                    RMul(epv.base[sh.param], RAdd(One, sh.up)))} :
           \E low_vps \in {compute_epv(epv.fin, inp_low).value_per_share} :
           \E high_vps \in {compute_epv(epv.fin, inp_high).value_per_share} :
             epv' = [epv EXCEPT
                       !.rows = Append(@, [parameter |-> sh.param,
                                           low |-> FSub(low_vps, epv.base_vps),
                                           high |-> FSub(high_vps, epv.base_vps),
                                           base |-> epv.base_vps]),
                       !.passed = <<inp_low, inp_high>>,
                       !.evals = @ + 2,
                       !.k = @ + 1]
    /\ UNCHANGED <<peVars, uiVars, mulVars, cmdVars, growthVars, dpVars, svcVars, valVars, simVars, prodVars, storageVars, edgeVars>>

\* df = pd.DataFrame(records); return df.sort_values(by=["high"], ...)
TornadoReturn ==
    /\ epv.op = "tornado_data" /\ epv.pc = "run" /\ epv.k = Len(epv.shocks)
    /\ epv' = [epv EXCEPT !.pc = "done", !.result = sort_values(epv.rows)]
    /\ UNCHANGED <<peVars, uiVars, mulVars, cmdVars, growthVars, dpVars, svcVars, valVars, simVars, prodVars, storageVars, edgeVars>>

\* The script's dists (margin and WACC around the base outputs), and the
\* same with a tight WACC range and an unbounded margin.
DistDicts ==
    { << [param |-> "normalized_margin", mu |-> Pct(20), sigma |-> Pct(3),
          min |-> Pct(-20), max |-> Pct(60)],
         [param |-> "wacc_override", mu |-> Pct(10), sigma |-> Pct(1),
          min |-> Pct(3), max |-> Pct(25)] >>,
      << [param |-> "normalized_margin", mu |-> Pct(20), sigma |-> Pct(3),
          min |-> None, max |-> None],
         [param |-> "wacc_override", mu |-> Pct(10), sigma |-> Pct(1),
          min |-> Pct(9), max |-> Pct(11)] >> }

\* monte_carlo(base_inputs, fin, n, dists), up to the loop.
MonteCarloCall(n, dists) ==
    /\ epv.op # "none" => epv.pc # "run"
    /\ epv.base # None
    /\ \E s \in DefaultRng(42) :
         epv' = [Called("mc") EXCEPT !.n = n, !.dists = dists, !.rng = s]
    /\ UNCHANGED <<peVars, uiVars, mulVars, cmdVars, growthVars, dpVars, svcVars, valVars, simVars, prodVars, storageVars, edgeVars>>

\* One turn of `for _ in range(n)`.
MonteCarloSim ==
    /\ epv.op = "mc" /\ epv.pc = "run" /\ epv.k < epv.n
    /\ \E d \in {ApplyDists(CopyInputs(epv.base), epv.dists, 1, epv.rng)} :
       \E out \in {compute_epv(epv.fin, d.inp)} :
         epv' = [epv EXCEPT !.rows = Append(@, out.value_per_share),
                            !.passed = <<d.inp>>, !.rng = d.rng,
                            !.evals = @ + 1, !.k = @ + 1]
    /\ UNCHANGED <<peVars, uiVars, mulVars, cmdVars, growthVars, dpVars, svcVars, valVars, simVars, prodVars, storageVars, edgeVars>>

\* return pd.DataFrame({"value_per_share": samples}).dropna()
MonteCarloReturn ==
    /\ epv.op = "mc" /\ epv.pc = "run" /\ epv.k = epv.n
    /\ epv' = [epv EXCEPT !.pc = "done", !.result = dropna(epv.rows)]
    /\ UNCHANGED <<peVars, uiVars, mulVars, cmdVars, growthVars, dpVars, svcVars, valVars, simVars, prodVars, storageVars, edgeVars>>

EpvInit ==
    /\ PeIdle
    /\ UiIdle
    /\ MulIdle
    /\ CmdIdle
    /\ GrowthIdle
    /\ DpIdle
    /\ SvcIdle
    /\ ValIdle
    /\ SimIdle
    /\ ProdIdle
    /\ StorageIdle
    /\ EdgeIdle
    /\ epv \in EpvSessions

EpvNext ==
    \/ \E ax \in GridAxes : \E values1 \in ax[2], values2 \in ax[4] :
         GridCall(ax[1], values1, ax[3], values2)
    \/ GridCell
    \/ \E shocks \in ShockDicts : TornadoCall(shocks)
    \/ TornadoShock
    \/ TornadoReturn
    \/ \E n \in 1..MaxSims, dists \in DistDicts : MonteCarloCall(n, dists)
    \/ MonteCarloSim
    \/ MonteCarloReturn

SpecEPV == EpvInit /\ [][EpvNext]_vars

-----------------------------------------------------------------------------
(* growth_sensitivity_analyzer.js: runMonteCarloGrowthSimulation           *)

MaxGrowthIterations == 3

\* normalRandom(mean, stdDev): two Math.random() calls feed a Box-Muller
\* transform.  Math.random is modelled by the same small congruence as the
\* numpy generator: the transform's z0 is read off the state before the first
\* call, and the state advances once per call.
normalRandom(s, mean, stdDev) ==
    [value |-> RAdd(mean, RMul(stdDev, Int2Q(NpDeviates[s + 1]))),
     rng |-> NpNext(NpNext(s))]

\* calculateGrowthScenarioEV(growthParams)
calculateGrowthScenarioEV(growthParams) ==
    LET baseEV == Int2Q(8000000)
        totalGrowthImpact == RSum(growthParams)
    IN  RMul(baseEV, RAdd(One, RMul(totalGrowthImpact, Int2Q(5))))

\* The five draws of one iteration, in the order of the object literal.
RandomGrowth(s) ==
    LET d1 == normalRandom(s, Pct(8), Pct(5))
        d2 == normalRandom(d1.rng, Pct(4), Pct(2))
        d3 == normalRandom(d2.rng, Pct(6), Pct(4))
        d4 == normalRandom(d3.rng, Pct(4), Pct(3))
        d5 == normalRandom(d4.rng, Pct(3), Pct(2))
    IN  [growthParams |-> <<d1.value, d2.value, d3.value, d4.value, d5.value>>,
         rng |-> d5.rng]

\* results.sort((a, b) => a - b)
SortAscending(results) == Sorted(results)

\* results.reduce((a, b) => a + b) on a non-empty array
SumOnly(results) == RSum(results)

\* const mean = results.reduce((a, b) => a + b) / results.length
Mean(results) == RDiv(RSum(results), Int2Q(Len(results)))

\* results[Math.floor(iterations * q)] with q = pct/100; out of range reads
\* undefined
AtQuantile(results, iterations, pct) ==
    LET idx == (iterations * pct) \div 100
    IN  IF idx < Len(results) THEN results[idx + 1] ELSE None

\* runMonteCarloGrowthSimulation(iterations): entry
GrowthStart(iterations) ==
    /\ growth.pc \in {"done", "TypeError"}
    /\ \E s \in NpRngStates :
         growth' = [pc |-> "loop", iterations |-> iterations, i |-> 0, rng |-> s,
                    results |-> <<>>, report |-> <<>>]
    /\ UNCHANGED <<peVars, uiVars, mulVars, cmdVars, epvVars, dpVars, svcVars, valVars, simVars, prodVars, storageVars, edgeVars>>

\* one iteration of the loop
GrowthIterate ==
    /\ growth.pc = "loop"
    /\ growth.i < growth.iterations
    /\ \E d \in {RandomGrowth(growth.rng)} :
         growth' = [growth EXCEPT
                      !.i = @ + 1,
                      !.rng = d.rng,
                      !.results = Append(@, calculateGrowthScenarioEV(d.growthParams))]
    /\ UNCHANGED <<peVars, uiVars, mulVars, cmdVars, epvVars, dpVars, svcVars, valVars, simVars, prodVars, storageVars, edgeVars>>

\* the statistical analysis after the loop: sort in place, percentiles, mean.
\* reduce without an initial value throws TypeError on an empty array.
GrowthReport ==
    /\ growth.pc = "loop"
    /\ growth.i = growth.iterations
    /\ \E sorted \in {SortAscending(growth.results)} :
         growth' = IF sorted = <<>>
                   THEN [growth EXCEPT !.pc = "TypeError"]
                   ELSE [growth EXCEPT
                           !.pc = "done",
                           !.results = sorted,
                           !.report =
                             [p10 |-> AtQuantile(sorted, growth.iterations, 10),
                              p25 |-> AtQuantile(sorted, growth.iterations, 25),
                              p50 |-> AtQuantile(sorted, growth.iterations, 50),
                              p75 |-> AtQuantile(sorted, growth.iterations, 75),
                              p90 |-> AtQuantile(sorted, growth.iterations, 90),
                              mean |-> Mean(sorted)]]
    /\ UNCHANGED <<peVars, uiVars, mulVars, cmdVars, epvVars, dpVars, svcVars, valVars, simVars, prodVars, storageVars, edgeVars>>

GrowthInit == PeIdle /\ UiIdle /\ MulIdle /\ CmdIdle /\ EpvIdle /\ GrowthIdle /\ DpIdle /\ SvcIdle /\ ValIdle /\ SimIdle /\ ProdIdle /\ StorageIdle /\ EdgeIdle

GrowthNext ==
    \/ \E iterations \in 0..MaxGrowthIterations : GrowthStart(iterations)
    \/ GrowthIterate
    \/ GrowthReport

SpecGrowth == GrowthInit /\ [][GrowthNext]_vars

-----------------------------------------------------------------------------
(* data_processor.js: processFinancialData                                 *)

\* JavaScript values: null is [null |-> TRUE]; a missing number reads as 0
\* and a missing string as "" wherever the code tests it with ||.
JsNull == [null |-> TRUE]
Truthy(n) == n # 0

\* The outcome of a step that can throw.
Thrown(name, message) == [threw |-> TRUE, name |-> name, message |-> message]
Returned(value) == [threw |-> FALSE, value |-> value]

\* parseStructuredData(data), for an object or null argument: a property read
\* on null throws TypeError.
parseStructuredData(data) ==
    IF "null" \in DOMAIN data
    THEN Thrown("TypeError", "Cannot read properties of null (reading 'revenue')")
    ELSE Returned(
           [revenue |-> [total |-> data.revenue],
            profitability |-> [ebitda |-> data.ebitda],
            location |-> IF data.location # "" THEN data.location
                         ELSE "suburban_standard"])

\* parseFinancialData(inputData, dataType): a dataType other than 'text' and
\* 'structured' leaves parsed = {}.
parseFinancialData(inputData, dataType) ==
    IF dataType = "structured" THEN parseStructuredData(inputData)
    ELSE Returned([empty |-> TRUE])

\* validateData(parsedData): collects issues and returns them; it throws only
\* when parsedData has no revenue object to read.
validateData(parsedData) ==
    IF "revenue" \notin DOMAIN parsedData
    THEN Thrown("TypeError", "Cannot read properties of undefined (reading 'total')")
    ELSE
    LET total == parsedData.revenue.total
        ebitda == parsedData.profitability.ebitda
        i1 == IF ~Truthy(total) \/ total < 100000
              THEN <<"Revenue data missing or unreasonably low">> ELSE <<>>
        i2 == IF ~Truthy(ebitda)
              THEN <<"EBITDA data missing - will estimate from industry averages">>
              ELSE <<>>
        i3 == IF Truthy(ebitda) /\ Truthy(total)
                 /\ (RLt(Q(ebitda, total), Pct(5)) \/ RLt(Pct(50), Q(ebitda, total)))
              THEN <<"EBITDA margin appears unusual">> ELSE <<>>
        i4 == IF parsedData.location = ""
              THEN <<"Location not specified - using suburban standard">> ELSE <<>>
    IN  Returned(i1 \o i2 \o i3 \o i4)

\* convertToModelParams(parsedData): the revenue breakdown executeAnalysis
\* falls back on (55 + 20 + 12 + 8 + 5 percent of the total).
convertToModelParams(parsedData) ==
    LET totalRevenue == IF Truthy(parsedData.revenue.total)
                        THEN parsedData.revenue.total ELSE 3500000
    IN  [baseYearRevenueBreakdown |->
           << Q(totalRevenue * 55, 100), Q(totalRevenue * 20, 100),
              Q(totalRevenue * 12, 100), Q(totalRevenue * 8, 100),
              Q(totalRevenue * 5, 100) >>]

\* executeAnalysis(modelParams, location, parsedData): the numeric results
executeAnalysis(modelParams, location, parsedData) ==
    LET totalRevenue == IF Truthy(parsedData.revenue.total)
                        THEN Int2Q(parsedData.revenue.total)
                        ELSE RSum(modelParams.baseYearRevenueBreakdown)
        estimatedEBITDA == IF Truthy(parsedData.profitability.ebitda)
                           THEN Int2Q(parsedData.profitability.ebitda)
                           ELSE RMul(totalRevenue, Pct(25))
        enhancedMultiple == executeAnalysisMultiple(location)
    IN  [enterpriseValue |-> RMul(estimatedEBITDA, enhancedMultiple),
         enhancedMultiple |-> enhancedMultiple,
         estimatedEBITDA |-> estimatedEBITDA,
         totalRevenue |-> totalRevenue,
         location |-> location]

\* catch (error) { return { success: false, error: error.message, ... } }
Caught(error) == [success |-> FALSE, error |-> error.message]

\* The body of processFinancialData's try block and its catch clause: the
\* call returns on every path.
processFinancialData(input, dataType) ==
    LET parsed == parseFinancialData(input, dataType)
    IN  IF parsed.threw THEN Returned(Caught(parsed))
        ELSE
        LET issues == validateData(parsed.value)
        IN  IF issues.threw THEN Returned(Caught(issues))
            ELSE
            LET modelParams == convertToModelParams(parsed.value)
                results == executeAnalysis(modelParams, parsed.value.location,
                                           parsed.value)
            IN  Returned([success |-> TRUE, rawResults |-> results,
                          validationIssues |-> issues.value,
                          parsedData |-> parsed.value,
                          modelParams |-> modelParams])

\* Arguments the agent passes: null, or an object with the figures it has.
DpInputs ==
    {JsNull} \cup
    { [revenue |-> r, ebitda |-> e, location |-> l] :
        r \in {0, -500000, 50000, 2000000, 4000000},
        e \in {0, -100000, 500000, 1500000},
        l \in {"", "manhattan", "phoenix"} }

ProcessFinancialData(input, dataType) ==
    /\ dp' = [input |-> input, dataType |-> dataType,
              outcome |-> processFinancialData(input, dataType)]
    /\ UNCHANGED <<peVars, uiVars, mulVars, cmdVars, epvVars, growthVars, svcVars, valVars, simVars, prodVars, storageVars, edgeVars>>

DpInit == PeIdle /\ UiIdle /\ MulIdle /\ CmdIdle /\ EpvIdle /\ GrowthIdle /\ DpIdle /\ SvcIdle /\ ValIdle /\ SimIdle /\ ProdIdle /\ StorageIdle /\ EdgeIdle

DpNext ==
    \E input \in DpInputs, dataType \in {"structured", "csv"} :
        ProcessFinancialData(input, dataType)

SpecDataProcessor == DpInit /\ [][DpNext]_vars

-----------------------------------------------------------------------------
(* realtime_market_data.ts: RealTimeMarketDataService and getRealTimeWACC   *)

\* The fields of RealTimeMarketData that getRealTimeWACC reads.
MarketData(rf, mrp, unemployment, consumerConfidence) ==
    [riskFreeRate |-> [value |-> rf],
     marketRiskPremium |-> [value |-> mrp],
     economicIndicators |-> [unemployment |-> unemployment,
                             consumerConfidence |-> consumerConfidence]]

\* generateMockData(): every figure is a base value plus a Math.random()
\* variation; the set holds outcomes at both ends of the ranges.
generateMockData ==
    { MarketData(rf, mrp, Q(38, 1000), 102) :
        rf \in {Q(43, 1000), Q(47, 1000)}, mrp \in {Q(51, 1000), Q(59, 1000)} }

\* Snapshots a caller can pass as the marketData argument.
WaccSnapshots ==
    { MarketData(Pct(4), Pct(5), Q(55, 1000), 95),
      MarketData(Pct(6), Pct(9), Q(65, 1000), 80) }

\* getRealTimeWACC(size, marketData) once `data` is known
RealTimeWACC(size, data) ==
    LET baseWACC == RAdd(data.riskFreeRate.value, data.marketRiskPremium.value)
        sizePremium ==
            CASE size = "small" ->
                   RAdd(Q(25, 1000),
                        IF RLt(Pct(5), data.economicIndicators.unemployment)
                        THEN Q(5, 1000) ELSE Zero)
              [] size = "medium" -> Q(15, 1000)
              [] size = "large" -> Q(5, 1000)
        economicAdjustment ==
            IF RLt(Pct(6), data.economicIndicators.unemployment) THEN Pct(1)
            ELSE IF data.economicIndicators.consumerConfidence < 90 THEN Q(5, 1000)
            ELSE Zero
    IN  RMax(Pct(8), RMin(Pct(18),
             RAdd(RAdd(baseWACC, sizePremium), economicAdjustment)))

MaxClock == 2
MaxForceUpdates == 2

\* private constructor(): the data is generated (d), lastUpdate = new Date(),
\* startAutoUpdate() sets the interval timer.  A snapshot handed out by an
\* earlier object no longer shares its nested objects with the current data.
Construct(s, d) ==
    [s EXCEPT !.instance = [id |-> s.constructed + 1, currentData |-> d,
                            lastUpdate |-> s.now],
              !.constructed = @ + 1, !.timers = @ + 1,
              !.returned = @ \cup {s.constructed + 1},
              !.snap = IF @ = <<>> THEN @ ELSE [@ EXCEPT !.aliased = FALSE]]

\* getInstance() without the `if (!instance)` test
GetInstanceAlwaysNew(s, d) == Construct(s, d)

\* static getInstance(): the state after the call; `returned` collects the
\* identities of the objects the calls have returned.
GetInstance(s, d) ==
    IF s.instance # <<>> THEN [s EXCEPT !.returned = @ \cup {s.instance.id}]
    ELSE Construct(s, d)

\* updateData() with lastUpdate left as it was
UpdateDataOnly(s, d) ==
    [s EXCEPT !.instance.currentData = d,
              !.snap = IF @ = <<>> THEN @ ELSE [@ EXCEPT !.aliased = FALSE]]

\* updateData(): currentData = generateMockData() (d, all objects new),
\* lastUpdate = new Date()
updateData(s, d) ==
    [s EXCEPT !.instance.currentData = d, !.instance.lastUpdate = s.now,
              !.snap = IF @ = <<>> THEN @ ELSE [@ EXCEPT !.aliased = FALSE]]

\* isDataStale(): getDataAge() > 60 minutes, the clock counting hours
isDataStale(s) == s.now - s.instance.lastUpdate > 1

\* A caller's RealTimeMarketDataService.getInstance()
GetInstanceCall ==
    /\ \E d \in generateMockData : svc' = GetInstance(svc, d)
    /\ UNCHANGED <<peVars, uiVars, mulVars, cmdVars, epvVars, growthVars, dpVars, valVars, simVars, prodVars, storageVars, edgeVars>>

\* getRealTimeWACC(size, marketData): with no marketData the data comes from
\* RealTimeMarketDataService.getInstance().getCurrentData(); the first such
\* call constructs the singleton, which generates its data and starts the
\* hourly timer.
GetRealTimeWACC(size, marketData) ==
    \E d \in generateMockData :
      \E s \in {IF marketData # <<>> THEN svc ELSE GetInstance(svc, d)} :
        \E data \in {IF marketData # <<>> THEN marketData ELSE s.instance.currentData} :
          /\ svc' = [s EXCEPT !.last = [size |-> size, marketData |-> marketData,
                                        value |-> RealTimeWACC(size, data)],
                              !.prev = svc.last]
          /\ UNCHANGED <<peVars, uiVars, mulVars, cmdVars, epvVars, growthVars, dpVars, valVars, simVars, prodVars, storageVars, edgeVars>>

\* The setInterval callback: updateData() replaces currentData.
AutoUpdate ==
    /\ svc.timers > 0
    /\ \E d \in generateMockData : svc' = updateData(svc, d)
    /\ UNCHANGED <<peVars, uiVars, mulVars, cmdVars, epvVars, growthVars, dpVars, valVars, simVars, prodVars, storageVars, edgeVars>>

SvcInit ==
    PeIdle /\ UiIdle /\ MulIdle /\ CmdIdle /\ EpvIdle /\ GrowthIdle /\ DpIdle /\ SvcIdle /\ ValIdle /\ SimIdle /\ ProdIdle /\ StorageIdle /\ EdgeIdle

SvcNext ==
    \/ \E size \in {"small", "medium", "large"},
          marketData \in {<<>>} \cup WaccSnapshots : GetRealTimeWACC(size, marketData)
    \/ GetInstanceCall
    \/ AutoUpdate

SpecService == SvcInit /\ [][SvcNext]_vars

\* forceUpdate(): the promise is created and its 100 ms timer set
ForceUpdate ==
    /\ svc.instance # <<>> /\ svc.forced < MaxForceUpdates
    /\ svc' = [svc EXCEPT !.pending = @ + 1, !.forced = @ + 1]
    /\ UNCHANGED <<peVars, uiVars, mulVars, cmdVars, epvVars, growthVars, dpVars, valVars, simVars, prodVars, storageVars, edgeVars>>

\* The timer of a forceUpdate fires: updateData(); resolve(getCurrentData())
ForceUpdateTimeout ==
    /\ svc.pending > 0
    /\ \E d \in generateMockData :
       \E s \in {updateData(svc, d)} :
         svc' = [s EXCEPT !.pending = @ - 1, !.resolved = s.instance.currentData]
    /\ UNCHANGED <<peVars, uiVars, mulVars, cmdVars, epvVars, growthVars, dpVars, valVars, simVars, prodVars, storageVars, edgeVars>>

\* A caller's getInstance().getCurrentData(): return { ...this.currentData },
\* a new object whose fields are the nested objects of currentData.
GetCurrentData ==
    /\ svc.instance # <<>>
    /\ svc' = [svc EXCEPT !.snap = [data |-> svc.instance.currentData,
                                    original |-> svc.instance.currentData,
                                    aliased |-> TRUE]]
    /\ UNCHANGED <<peVars, uiVars, mulVars, cmdVars, epvVars, growthVars, dpVars, valVars, simVars, prodVars, storageVars, edgeVars>>

\* The caller writes to the snapshot it holds: snap.marketRiskPremium = {...}
\* (field "marketRiskPremium") or snap.riskFreeRate.value = v (field "value").
\* The riskFreeRate object is the one currentData holds until the data is
\* replaced.
ModifySnapshot(field, v) ==
    /\ svc.snap # <<>>
    /\ svc' = IF field = "marketRiskPremium"
              THEN [svc EXCEPT !.snap.data.marketRiskPremium = [value |-> v]]
              ELSE IF svc.snap.aliased
              THEN [svc EXCEPT !.snap.data.riskFreeRate.value = v,
                               !.instance.currentData.riskFreeRate.value = v]
              ELSE [svc EXCEPT !.snap.data.riskFreeRate.value = v]
    /\ UNCHANGED <<peVars, uiVars, mulVars, cmdVars, epvVars, growthVars, dpVars, valVars, simVars, prodVars, storageVars, edgeVars>>

\* An hour passes.
Tick ==
    /\ svc.now < MaxClock
    /\ svc' = [svc EXCEPT !.now = @ + 1]
    /\ UNCHANGED <<peVars, uiVars, mulVars, cmdVars, epvVars, growthVars, dpVars, valVars, simVars, prodVars, storageVars, edgeVars>>

RtNext ==
    \/ GetInstanceCall
    \/ AutoUpdate
    \/ ForceUpdate
    \/ ForceUpdateTimeout
    \/ GetCurrentData
    \/ \E field \in {"marketRiskPremium", "value"} : ModifySnapshot(field, Pct(9))
    \/ Tick

\* The event loop runs every timer callback that is due.
SpecRealtime == SvcInit /\ [][RtNext]_vars /\ WF_vars(ForceUpdateTimeout)


-----------------------------------------------------------------------------
(* The bridges from enterprise value to equity value                       *)

\* Balance(assets_cash_ar, assets_ppe_net, other_assets, liabilities_ap,
\* liabilities_debt, other_liabilities), in thousands
Balance(cash_ar, ppe_net, other_assets, ap, debt, other_liabilities) ==
    [assets_cash_ar |-> cash_ar, assets_ppe_net |-> ppe_net,
     other_assets |-> other_assets, liabilities_ap |-> ap,
     liabilities_debt |-> debt, other_liabilities |-> other_liabilities]

Balances ==
    { Balance(Int2Q(ca), Int2Q(ppe), Int2Q(oa), Int2Q(ap), Int2Q(d), Zero) :
        ca \in {0, 8}, ppe \in {0, 4}, oa \in {0, 1}, ap \in {0, 2}, d \in {0, 10} }

BalanceAssets(bal) == RAdd(RAdd(bal.assets_cash_ar, bal.assets_ppe_net), bal.other_assets)

BalanceLiabilities(bal) ==
    RAdd(RAdd(bal.liabilities_ap, bal.liabilities_debt), bal.other_liabilities)

\* to_equity(ev, bal)
to_equity(ev, bal) == RSub(RAdd(ev, BalanceAssets(bal)), BalanceLiabilities(bal))

\* What the sidebar can set for the bridge of compute_epv: the excess-cash
\* slider and the "Other adjustments to equity value" number input.
BridgeInputs ==
    { [EPVInputs(None, Pct(25), Pct(4), Pct(80), One, None)
         EXCEPT !.excess_cash_pct = pct, !.other_adjustments = Int2Q(adj)] :
        pct \in {Q(1, 2), One}, adj \in {-5, 0, 5} }

BridgeFinancials == { [Financials(Int2Q(10)) EXCEPT !.lti = Int2Q(l)] : l \in {0, 3} }

\* out = compute_epv(ticker, fin, inputs)
ComputeEpv(fin, inputs) ==
    /\ valuation' = [fn |-> "compute_epv", fin |-> fin, inputs |-> inputs,
                     out |-> compute_epv(fin, inputs)]
    /\ UNCHANGED <<peVars, uiVars, mulVars, cmdVars, epvVars, growthVars, dpVars, svcVars, simVars, prodVars, storageVars, edgeVars>>

\* equity = to_equity(ev, balance)
ToEquity(ev, bal) ==
    /\ valuation' = [fn |-> "to_equity", ev |-> ev, bal |-> bal,
                     out |-> to_equity(ev, bal)]
    /\ UNCHANGED <<peVars, uiVars, mulVars, cmdVars, epvVars, growthVars, dpVars, svcVars, simVars, prodVars, storageVars, edgeVars>>

EquityInit ==
    /\ cfg \in { c \in PeConfigs : c.forecast_years = 1 }
    /\ meta = [cfg |-> cfg, out |-> NoResult]
    /\ UiIdle
    /\ MulIdle
    /\ CmdIdle
    /\ EpvIdle
    /\ GrowthIdle
    /\ DpIdle
    /\ SvcIdle
    /\ ValIdle
    /\ SimIdle
    /\ ProdIdle
    /\ StorageIdle
    /\ EdgeIdle

EquityNext ==
    \/ Run
    \/ \E fin \in BridgeFinancials, inputs \in BridgeInputs : ComputeEpv(fin, inputs)
    \/ \E ev \in {Int2Q(10), Int2Q(20)}, bal \in Balances : ToEquity(ev, bal)

SpecEquity == EquityInit /\ [][EquityNext]_vars

-----------------------------------------------------------------------------
(* unnamed/part_005: validation rules, AuditTrail, ProductionValuationModel *)

MaxEntries == 4

\* The figures of a FinancialReportInput the error and warning rules read;
\* 0 stands for a missing figure (the rules test `!x`).
ReportInputs ==
    [revenue : {0, -100, 1000}, costOfGoodsSold : {0, 200, 500, 1200},
     ebitda : {0, -50, 200},
     balanceSheet : { [totalAssets |-> 0, totalLiabilities |-> 0, equity |-> 0],
                      [totalAssets |-> 10000, totalLiabilities |-> 4000, equity |-> 6000],
                      [totalAssets |-> 10000, totalLiabilities |-> 4000, equity |-> 3000] }]

\* VALIDATION_RULES: what each rule's check(data) returns, in the order of
\* the list: [passed, message (TRUE when the result has one), level].
RuleResults(data) ==
    LET revenue == data.revenue
        cogs == data.costOfGoodsSold
        ebitda == data.ebitda
        bs == data.balanceSheet
        pass == [passed |-> TRUE, message |-> FALSE, level |-> "suggestion"]
        imbalance == Abs(bs.totalAssets - (bs.totalLiabilities + bs.equity))
        tolerance == IF bs.totalAssets \div 100 > 1000 THEN bs.totalAssets \div 100 ELSE 1000
    IN  << \* Positive Revenue
           [passed |-> revenue = 0 \/ revenue > 0, message |-> TRUE, level |-> "error"],
           \* COGS vs Revenue
           IF revenue = 0 \/ cogs = 0 THEN pass
           ELSE [passed |-> cogs <= revenue, message |-> TRUE, level |-> "error"],
           \* Balance Sheet Balance
           IF bs.totalAssets = 0 \/ bs.totalLiabilities = 0 \/ bs.equity = 0 THEN pass
           ELSE [passed |-> imbalance <= tolerance, message |-> TRUE, level |-> "error"],
           \* Gross Margin Range: (revenue - cogs) / revenue outside [0.55, 0.85]
           IF revenue = 0 \/ cogs = 0 THEN pass
           ELSE IF RLt(Q(revenue - cogs, revenue), Pct(55))
                   \/ RLt(Pct(85), Q(revenue - cogs, revenue))
           THEN [passed |-> FALSE, message |-> TRUE, level |-> "warning"]
           ELSE pass,
           \* EBITDA Margin Reasonableness: ebitda / revenue < 0 or > 0.35
           IF revenue = 0 \/ ebitda = 0 THEN pass
           ELSE IF RLt(Q(ebitda, revenue), Zero) \/ RLt(Pct(35), Q(ebitda, revenue))
           THEN [passed |-> FALSE, message |-> TRUE, level |-> "warning"]
           ELSE pass,
           \* Current Ratio Analysis: no current assets or liabilities given
           pass,
           \* Revenue Breakdown Available
           [passed |-> revenue # 0, message |-> TRUE, level |-> "suggestion"] >>

\* validateFinancialData with warnings counted as errors
ValidateWarningsFail(data) ==
    LET failed(level) == { k \in 1..7 : /\ ~RuleResults(data)[k].passed
                                        /\ RuleResults(data)[k].message
                                        /\ RuleResults(data)[k].level = level }
    IN  [isValid |-> failed("error") \cup failed("warning") = {},
         errors |-> failed("error"),
         warnings |-> failed("warning"), suggestions |-> failed("suggestion")]

\* validateFinancialData(data): errors, warnings and suggestions hold the
\* numbers of the rules whose message was pushed.
validateFinancialData(data) ==
    LET failed(level) == { k \in 1..7 : /\ ~RuleResults(data)[k].passed
                                        /\ RuleResults(data)[k].message
                                        /\ RuleResults(data)[k].level = level }
    IN  [isValid |-> failed("error") = {}, errors |-> failed("error"),
         warnings |-> failed("warning"), suggestions |-> failed("suggestion")]

\* AuditTrail.log(action, details): this.entries.push({...})
Logged(p, action) ==
    [p EXCEPT !.entries = Append(@, [action |-> action, sessionId |-> p.sessionId]),
              !.calls = @ + 1]

\* A caller's log(action, details) on the trail
Log(action) ==
    /\ Len(prod.entries) < MaxEntries
    /\ prod' = Logged(prod, action)
    /\ UNCHANGED <<peVars, uiVars, mulVars, cmdVars, epvVars, growthVars, dpVars, svcVars, valVars, simVars, storageVars, edgeVars>>

\* ProductionValuationModel.processFinancialData(rawData), data being what
\* parseFinancialData makes of rawData
ProdProcessFinancialData(data) ==
    /\ Len(prod.entries) + 3 <= MaxEntries
    /\ \E validation \in {validateFinancialData(data)} :
       \E p \in {Logged(Logged(prod, "financial_data_input"), "validation_complete")} :
         prod' = IF ~validation.isValid
                 THEN [Logged(p, "validation_failed")
                         EXCEPT !.out = [success |-> FALSE, validation |-> validation,
                                         auditId |-> p.sessionId, input |-> data]]
                 ELSE [p EXCEPT !.out = [success |-> TRUE, data |-> data,
                                         validation |-> validation,
                                         auditId |-> p.sessionId, input |-> data]]
    /\ UNCHANGED <<peVars, uiVars, mulVars, cmdVars, epvVars, growthVars, dpVars, svcVars, valVars, simVars, storageVars, edgeVars>>

\* getAuditLog() returning this.entries itself
GetAuditLogShared ==
    /\ prod' = [prod EXCEPT !.log = [items |-> prod.entries, shared |-> TRUE]]
    /\ UNCHANGED <<peVars, uiVars, mulVars, cmdVars, epvVars, growthVars, dpVars, svcVars, valVars, simVars, storageVars, edgeVars>>

\* getAuditLog(): return [...this.entries], a new array
GetAuditLog ==
    /\ prod' = [prod EXCEPT !.log = [items |-> prod.entries, shared |-> FALSE]]
    /\ UNCHANGED <<peVars, uiVars, mulVars, cmdVars, epvVars, growthVars, dpVars, svcVars, valVars, simVars, storageVars, edgeVars>>

\* The caller changes the array it was given: pop(), reverse(), or
\* arr[0] = another entry.  The trail's array changes with it only when the
\* two are one array.
ChangeReturned(op) ==
    /\ prod.log # <<>> /\ prod.log.items # <<>>
    /\ \E items \in { CASE op = "pop" -> SubSeq(prod.log.items, 1, Len(prod.log.items) - 1)
                        [] op = "reverse" -> [k \in 1..Len(prod.log.items) |->
                                                prod.log.items[Len(prod.log.items) + 1 - k]]
                        [] op = "assign" -> [prod.log.items EXCEPT
                                               ![1] = [action |-> "forged", sessionId |-> "none"]] } :
         prod' = IF prod.log.shared
                 THEN [prod EXCEPT !.log.items = items, !.entries = items]
                 ELSE [prod EXCEPT !.log.items = items]
    /\ UNCHANGED <<peVars, uiVars, mulVars, cmdVars, epvVars, growthVars, dpVars, svcVars, valVars, simVars, storageVars, edgeVars>>

ProdInit ==
    /\ PeIdle
    /\ UiIdle
    /\ MulIdle
    /\ CmdIdle
    /\ EpvIdle
    /\ GrowthIdle
    /\ DpIdle
    /\ SvcIdle
    /\ ValIdle
    /\ SimIdle
    /\ prod \in { NewProduction(id) : id \in {"session_1", "session_2"} }
    /\ StorageIdle
    /\ EdgeIdle

ProdNext ==
    \/ \E action \in {"valuation_run", "export"} : Log(action)
    \/ \E data \in ReportInputs : ProdProcessFinancialData(data)
    \/ GetAuditLog
    \/ \E op \in {"pop", "reverse", "assign"} : ChangeReturned(op)

SpecProduction == ProdInit /\ [][ProdNext]_vars

-----------------------------------------------------------------------------
(* summit3.md: the component's year rows, sample, saved session, histogram *)

\* The memo after the render that follows a change of the hooks.  The DCF
\* at the sample's rates (16% on 12% growth, 21% tax) has no exact value
\* within the integers of the model and is left as NaN.
Rendered(u) ==
    IF u.taxRate = 0 THEN dcf(u)
    ELSE [ev |-> NaN, equity |-> NaN, fcfs |-> <<>>, horizon |-> Horizon]

\* Math.round(x * 1.1) for x >= 0
RoundTenthMore(x) == (11 * x + 5) \div 10

\* addYear without the length test
AddYearAlways ==
    /\ \E last \in {ui.yearsData[Len(ui.yearsData)]} :
         ui' = [ui EXCEPT !.yearsData =
                  Append(@, [year |-> last.year + 1,
                             revenue |-> RoundTenthMore(last.revenue),
                             rawEbitda |-> RoundTenthMore(last.rawEbitda),
                             addbacks |-> last.addbacks])]
    /\ dcfMemo' = Rendered(ui')
    /\ UNCHANGED <<peVars, mulVars, cmdVars, epvVars, growthVars, dpVars, svcVars, valVars, simVars, prodVars, storageVars, edgeVars>>

\* addYear: nothing happens at five rows
AddYear ==
    /\ ui' = IF Len(ui.yearsData) >= 5 THEN ui
             ELSE LET last == ui.yearsData[Len(ui.yearsData)]
                  IN  [ui EXCEPT !.yearsData =
                         Append(@, [year |-> last.year + 1,
                                    revenue |-> RoundTenthMore(last.revenue),
                                    rawEbitda |-> RoundTenthMore(last.rawEbitda),
                                    addbacks |-> last.addbacks])]
    /\ dcfMemo' = Rendered(ui')
    /\ UNCHANGED <<peVars, mulVars, cmdVars, epvVars, growthVars, dpVars, svcVars, valVars, simVars, prodVars, storageVars, edgeVars>>

\* removeYear: nothing happens at three rows
RemoveYear ==
    /\ ui' = IF Len(ui.yearsData) <= 3 THEN ui
             ELSE [ui EXCEPT !.yearsData = SubSeq(@, 1, Len(@) - 1)]
    /\ dcfMemo' = Rendered(ui')
    /\ UNCHANGED <<peVars, mulVars, cmdVars, epvVars, growthVars, dpVars, svcVars, valVars, simVars, prodVars, storageVars, edgeVars>>

\* loadSample (figures in ten thousands, years counted from currentYear - 3;
\* the run count on the scale of the model)
LoadSample ==
    /\ ui' = [yearsData |->
                << [year |-> 1, revenue |-> 180, rawEbitda |-> 40, addbacks |-> 15],
                   [year |-> 2, revenue |-> 210, rawEbitda |-> 52, addbacks |-> 15],
                   [year |-> 3, revenue |-> 250, rawEbitda |-> 60, addbacks |-> 15],
                   [year |-> 4, revenue |-> 280, rawEbitda |-> 68, addbacks |-> 15] >>,
              synergyPct |-> 15, assets |-> 10, liabilities |-> 12,
              growthRate |-> 12, discountRate |-> 16, capexPct |-> 10,
              taxRate |-> 21, terminalGrowth |-> 3]
    /\ dcfMemo' = Rendered(ui')
    /\ sim' = [sim EXCEPT !.mcRuns = MaxMcRuns]
    /\ UNCHANGED <<peVars, mulVars, cmdVars, epvVars, growthVars, dpVars, svcVars, valVars, prodVars, storageVars, edgeVars>>

\* saveSession: localStorage.setItem("cpp_session", JSON.stringify(payload))
SaveSession ==
    /\ storage' = [ui |-> ui, mcRuns |-> sim.mcRuns]
    /\ UNCHANGED <<peVars, uiVars, mulVars, cmdVars, epvVars, growthVars, dpVars, svcVars, valVars, simVars, prodVars, edgeVars>>

\* loadSession on what saveSession stored: `if (!raw) return`, otherwise
\* every hook is set from the payload (s.yearsData || yearsData takes the
\* stored array, an array being truthy).
LoadSavedSession ==
    /\ ui' = IF storage = NoSession THEN ui ELSE storage.ui
    /\ dcfMemo' = Rendered(ui')
    /\ sim' = IF storage = NoSession THEN sim ELSE [sim EXCEPT !.mcRuns = storage.mcRuns]
    /\ UNCHANGED <<peVars, mulVars, cmdVars, epvVars, growthVars, dpVars, svcVars, valVars, prodVars, storageVars, edgeVars>>

\* the Add-backs input of row idx: Number(e.target.value || 0)
SetAddbacks(idx, v) ==
    /\ ui' = [ui EXCEPT !.yearsData[idx].addbacks = v]
    /\ dcfMemo' = Rendered(ui')
    /\ UNCHANGED <<peVars, mulVars, cmdVars, epvVars, growthVars, dpVars, svcVars, valVars, simVars, prodVars, storageVars, edgeVars>>

SessionInit ==
    /\ PeIdle
    /\ UiIdle
    /\ MulIdle
    /\ CmdIdle
    /\ EpvIdle
    /\ GrowthIdle
    /\ DpIdle
    /\ SvcIdle
    /\ ValIdle
    /\ SimIdle
    /\ ProdIdle
    /\ StorageIdle
    /\ EdgeIdle

SessionNext ==
    \/ AddYear
    \/ RemoveYear
    \/ LoadSample
    \/ SaveSession
    \/ LoadSavedSession
    \/ \E v \in {0, 15} : SetAddbacks(1, v)

SpecSession == SessionInit /\ [][SessionNext]_vars

HistogramBins == 12

\* Math.floor((v - min) / width) without Math.min(bins - 1, ...)
HistogramIndexUnclamped(v, min, width) ==
    LET q == RDiv(RSub(v, min), width) IN q[1] \div q[2]

\* const i = Math.min(bins - 1, Math.floor((v - min) / width))
HistogramIndex(v, min, width) ==
    LET q == RDiv(RSub(v, min), width)
        floor == q[1] \div q[2]
    IN  IF HistogramBins - 1 < floor THEN HistogramBins - 1 ELSE floor

\* mcHistogram: the counts of the buckets, [] without results.  counts[i]++
\* at an index outside 0..bins-1 sets a property of the array and counts in
\* no bucket.
RECURSIVE HistogramCounts(_, _, _, _)
HistogramCounts(results, min, width, counts) ==
    IF results = <<>> THEN counts
    ELSE LET i == HistogramIndex(Head(results), min, width)
         IN  HistogramCounts(Tail(results), min, width,
                             IF i \in 0..(HistogramBins - 1)
                             THEN [counts EXCEPT ![i + 1] = @ + 1] ELSE counts)

mcHistogram(mcResults) ==
    IF Len(mcResults) = 0 THEN <<>>
    ELSE LET sorted == Sorted(mcResults)
             min == sorted[1]
             max == sorted[Len(sorted)]
             width == IF max = min THEN One ELSE RDiv(RSub(max, min), Int2Q(HistogramBins))
         IN  HistogramCounts(mcResults, min, width, [i \in 1..HistogramBins |-> 0])

-----------------------------------------------------------------------------
(* medispa_analysis_simulation.js: edge-case scenarios                     *)

MaxScenarioIds == 2

\* Math.min() of no arguments
PosInfinity == <<1, 0>>

\* EDGE_CASE_SCENARIOS: the adjustments computeProjections' result depends on
\* (revenueImpact and multipleReduction, <<>> and 0 where the scenario has
\* none) and the probability, in percent.
EDGE_CASE_SCENARIOS ==
    << [id |-> "covid_style_pandemic", probability |-> 2, revenueImpact |-> <<25, 65, 90, 100, 100>>, multipleReduction |-> 15],
       [id |-> "key_injector_departure", probability |-> 8, revenueImpact |-> <<75, 85, 95, 100, 100>>, multipleReduction |-> 0],
       [id |-> "fda_botox_restriction", probability |-> 5, revenueImpact |-> <<85, 88, 90, 90, 90>>, multipleReduction |-> 10],
       [id |-> "economic_recession", probability |-> 15, revenueImpact |-> <<70, 75, 85, 95, 100>>, multipleReduction |-> 8],
       [id |-> "major_competitor_entry", probability |-> 12, revenueImpact |-> <<85, 88, 92, 95, 98>>, multipleReduction |-> 0],
       [id |-> "technology_disruption", probability |-> 6, revenueImpact |-> <<90, 95, 100, 100, 100>>, multipleReduction |-> 0],
       [id |-> "malpractice_lawsuit", probability |-> 3, revenueImpact |-> <<60, 75, 90, 95, 100>>, multipleReduction |-> 20],
       [id |-> "state_licensing_change", probability |-> 10, revenueImpact |-> <<>>, multipleReduction |-> 0] >>

KnownScenarioIds == { EDGE_CASE_SCENARIOS[i].id : i \in 1..Len(EDGE_CASE_SCENARIOS) }

\* ModelParams, the fields computeProjections reads: the revenue lines of
\* the base year (in thousands) and the exit multiple.
EdgeBaseParams ==
    { [baseYearRevenueBreakdown |-> <<2000, 1500>>, exitMultipleEBITDA |-> Q(8, 1)],
      [baseYearRevenueBreakdown |-> <<3500>>, exitMultipleEBITDA |-> Q(13, 2)] }

\* applyEdgeCaseScenario with severityMultiplier 1; <<>> stands for the throw
\* on an unknown id.
applyEdgeCaseScenario(baseParams, scenarioId) ==
    IF scenarioId \notin KnownScenarioIds THEN <<>>
    ELSE LET scenario == CHOOSE s \in { EDGE_CASE_SCENARIOS[i] : i \in 1..Len(EDGE_CASE_SCENARIOS) } : s.id = scenarioId
             effectiveMultiplier ==
                 IF scenario.revenueImpact = <<>> THEN One
                 ELSE RSub(One, RMul(RSub(One, Pct(scenario.revenueImpact[1])), One))
             lines == baseParams.baseYearRevenueBreakdown
         IN  [adjustedParams |->
                [baseYearRevenueBreakdown |-> [k \in 1..Len(lines) |-> RMul(Int2Q(lines[k]), effectiveMultiplier)],
                 exitMultipleEBITDA |-> RMul(baseParams.exitMultipleEBITDA, RSub(One, Pct(scenario.multipleReduction)))],
              scenarioDetails |-> scenario]

\* computeProjections (the placeholder inside runEdgeCaseAnalysis):
\* enterpriseValue of the result; revenue is a sequence of rationals
computeProjections(baseParams, revenue, exitMultipleEBITDA) ==
    LET baseEV == Int2Q(8000000)
        revenueMultiplier == RDiv(RSum(revenue), RSum([k \in 1..Len(baseParams.baseYearRevenueBreakdown) |-> Int2Q(baseParams.baseYearRevenueBreakdown[k])]))
    IN  RDiv(RMul(RMul(baseEV, revenueMultiplier), exitMultipleEBITDA), baseParams.exitMultipleEBITDA)

RECURSIVE MathMin(_)
MathMin(s) == IF s = <<>> THEN PosInfinity ELSE IF Tail(s) = <<>> THEN Head(s) ELSE RMin(Head(s), MathMin(Tail(s)))

\* runEdgeCaseAnalysis(baseParams, scenarioIds), called once with the
\* arguments drawn at the start
RunEdgeCaseAnalysis(baseParams, scenarioIds) ==
    /\ edge.pc = "called"
    /\ \E applied \in {[k \in 1..Len(scenarioIds) |-> applyEdgeCaseScenario(baseParams, scenarioIds[k])]} :
       \E baseCase \in {computeProjections(baseParams, [k \in 1..Len(baseParams.baseYearRevenueBreakdown) |-> Int2Q(baseParams.baseYearRevenueBreakdown[k])], baseParams.exitMultipleEBITDA)} :
         IF \E k \in 1..Len(applied) : applied[k] = <<>>
         THEN edge' = [edge EXCEPT !.pc = "returned", !.threw = TRUE]
         ELSE \E scenarios \in {[k \in 1..Len(applied) |->
                                   LET ev == computeProjections(baseParams, applied[k].adjustedParams.baseYearRevenueBreakdown, applied[k].adjustedParams.exitMultipleEBITDA)
                                       evImpact == RSub(ev, baseCase)
                                   IN  [scenario |-> applied[k].scenarioDetails.id,
                                        enterpriseValue |-> ev,
                                        evImpact |-> evImpact,
                                        evImpactPct |-> RDiv(evImpact, baseCase),
                                        probabilityAdjustedImpact |-> RMul(evImpact, Pct(applied[k].scenarioDetails.probability))]]} :
              \E expectedValueAtRisk \in {RSum([k \in 1..Len(scenarios) |-> scenarios[k].probabilityAdjustedImpact])} :
                edge' = [edge EXCEPT !.pc = "returned", !.scenarios = scenarios,
                         !.summary = [expectedValueAtRisk |-> expectedValueAtRisk,
                                      probabilityWeightedEV |-> RAdd(baseCase, expectedValueAtRisk),
                                      worstCaseEV |-> MathMin([k \in 1..Len(scenarios) |-> scenarios[k].enterpriseValue]),
                                      bestCaseEV |-> baseCase]]
    /\ UNCHANGED <<peVars, uiVars, mulVars, cmdVars, epvVars, growthVars, dpVars, svcVars, valVars, simVars, prodVars, storageVars>>

RECURSIVE ScenarioIdLists(_)
ScenarioIdLists(n) ==
    IF n = 0 THEN {<<>>}
    ELSE LET shorter == ScenarioIdLists(n - 1)
         IN  shorter \cup { Append(l, id) : l \in shorter, id \in KnownScenarioIds \cup {"unknown_scenario"} }

EdgeInit ==
    /\ PeIdle
    /\ UiIdle
    /\ MulIdle
    /\ CmdIdle
    /\ EpvIdle
    /\ GrowthIdle
    /\ DpIdle
    /\ SvcIdle
    /\ ValIdle
    /\ SimIdle
    /\ ProdIdle
    /\ StorageIdle
    /\ edge \in { [NoAnalysis EXCEPT !.pc = "called", !.baseParams = baseParams, !.scenarioIds = scenarioIds] :
                     baseParams \in EdgeBaseParams, scenarioIds \in ScenarioIdLists(MaxScenarioIds) }

EdgeNext == RunEdgeCaseAnalysis(edge.baseParams, edge.scenarioIds)

SpecEdge == EdgeInit /\ [][EdgeNext]_vars

-----------------------------------------------------------------------------
\* C3: the market multiple applied by the comparable-multiple path (base
\* multiple times the location, size, margin and growth factors) lies within
\* the multiple range [6.0, 15.0] for every combination of factor inputs.
C3_MultipleWithinRange ==
    multiple.fn # "none"
    => (RLe(Int2Q(6), multiple.value) /\ RLe(multiple.value, Int2Q(15)))

\* C1: under the perpetuity-growth (Gordon) method, a valuation invoked with
\* discountRate <= terminalGrowthRate fails with InvalidTerminalAssumptionError
\* and never returns a result: neither the CLI's run_forecast nor the
\* component's dcf memo yields a value in that case.
C1_TerminalGuardRaises ==
    /\ ( /\ meta.out.status # "none"
         /\ meta.cfg.terminal.method = "gordon"
         /\ RLe(wacc(meta.cfg), meta.cfg.terminal.gordon_growth) )
       => meta.out.status = "InvalidTerminalAssumptionError"
    /\ RLe(Pct(ui.discountRate), Pct(ui.terminalGrowth))
       => "ev" \notin DOMAIN dcfMemo

\* C2: the result of a valuation satisfies
\* enterpriseValue = presentValueOfCashFlows + presentValueOfTerminal.
C2_Additivity ==
    meta.out.status = "ok"
    => meta.out.enterprise_value = RAdd(meta.out.pv_flows, meta.out.pv_terminal)

C2_Witness ==
    /\ meta.out.status = "ok"
    /\ meta.out.pv_flows # Zero
    /\ meta.out.pv_terminal # Zero
    /\ meta.cfg.forecast_years > 1

\* C4: two Monte Carlo runs with the same seed, the same distributions, the
\* same base assumptions and the same iteration count produce the identical
\* sequence of sample outcomes, element by element.
C4_SameSeedSameSamples ==
    ( /\ epv.op = "mc" /\ epv.pc = "done"
      /\ epv.prev # None
      /\ epv.prev.n = epv.n
      /\ epv.prev.dists = epv.dists )
    => (epv.prev.rows = epv.rows /\ epv.prev.result = epv.result)

C4_Witness ==
    /\ epv.op = "mc" /\ epv.pc = "done"
    /\ epv.prev # None
    /\ epv.prev.n = epv.n
    /\ epv.prev.dists = epv.dists
    /\ epv.n >= 2
    /\ Len(epv.result) >= 2
    /\ epv.result[1] # epv.result[2]

\* C5: the tornado result lists the drivers in descending order of the
\* absolute value of their high-side delta from the base case.
C5_SortedByAbsHighDelta ==
    (epv.op = "tornado_data" /\ epv.pc = "done")
    => \A i \in 1..(Len(epv.result) - 1) :
           (~IsNaN(epv.result[i].high) /\ ~IsNaN(epv.result[i + 1].high))
           => RLe(RAbs(epv.result[i + 1].high), RAbs(epv.result[i].high))

\* C6: a sensitivity grid over value lists of lengths m and n performs
\* exactly m*n evaluations and returns exactly m*n cells, outer loop over the
\* first parameter and inner loop over the second: cell (i, j) is the
\* valuation for the i-th first value and the j-th second value.
C6_GridShapeAndOrder ==
    (epv.op = "sensitivity_grid" /\ epv.pc = "done")
    => LET m == Len(epv.values1)
           n == Len(epv.values2)
       IN  /\ epv.evals = m * n
           /\ Len(epv.result) = m * n
           /\ \A i \in 1..m, j \in 1..n :
                LET cell == epv.result[(i - 1) * n + j]
                    inp == [epv.base EXCEPT ![epv.p1] = epv.values1[i],
                                            ![epv.p2] = epv.values2[j]]
                IN  /\ cell.p1 = epv.values1[i]
                    /\ cell.p2 = epv.values2[j]
                    /\ cell.value_per_share
                         = compute_epv(epv.fin, inp).value_per_share

C6_Witness ==
    /\ epv.op = "sensitivity_grid" /\ epv.pc = "done"
    /\ Len(epv.values1) >= 2
    /\ Len(epv.values2) >= 2
    /\ Len(epv.result) = Len(epv.values1) * Len(epv.values2)
    /\ ~IsNaN(epv.result[1].value_per_share)
    /\ epv.result[2].value_per_share # epv.result[3].value_per_share

\* C7: when the base values of both varied parameters appear in their value
\* lists, the grid cell at those values equals the valuation of the base
\* inputs with no overrides.
C7_BaseCellEqualsBase ==
    (epv.op = "sensitivity_grid" /\ epv.pc = "done")
    => \A i \in 1..Len(epv.values1), j \in 1..Len(epv.values2) :
           (epv.values1[i] = epv.base[epv.p1] /\ epv.values2[j] = epv.base[epv.p2])
           => epv.result[(i - 1) * Len(epv.values2) + j].value_per_share
                = compute_epv(epv.fin, epv.base).value_per_share

C7_Witness ==
    /\ epv.op = "sensitivity_grid" /\ epv.pc = "done"
    /\ Len(epv.values1) >= 2
    /\ Len(epv.values2) >= 2
    /\ epv.values1[2] = epv.base[epv.p1]
    /\ epv.values2[2] = epv.base[epv.p2]
    /\ ~IsNaN(epv.result[4].value_per_share)

C11_MeanWithinRange ==
    (growth.pc = "done" /\ growth.iterations > 0)
    => \E lo, hi \in 1..Len(growth.results) :
          /\ RLe(growth.results[lo], growth.report.mean)
          /\ RLe(growth.report.mean, growth.results[hi])

C11_Witness ==
    /\ growth.pc = "done"
    /\ growth.iterations >= 2
    /\ Len(growth.results) = growth.iterations
    /\ RLt(growth.results[1], growth.report.mean)
    /\ RLt(growth.report.mean, growth.results[Len(growth.results)])

\* C12: a Monte Carlo run with iteration count N returns exactly N sample
\* outcomes, the i-th being the scalar outcome of the i-th iteration.
C12_OneOutcomePerIteration ==
    (epv.op = "mc" /\ epv.pc = "done")
    => /\ Len(epv.result) = epv.n
       /\ \A i \in 1..Len(epv.result) : epv.result[i] = epv.rows[i]

C14_ErrorsReachCaller ==
    (dp.dataType # "none"
     /\ LET parsed == parseFinancialData(dp.input, dp.dataType)
        IN  parsed.threw \/ validateData(parsed.value).threw)
    => dp.outcome.threw

\* C15: a valuation invoked with baseRevenue <= 0 fails with
\* InvalidAssumptionError and produces no result.
C15_NonPositiveRevenueRejected ==
    (dp.dataType = "structured" /\ "revenue" \in DOMAIN dp.input
     /\ dp.input.revenue <= 0)
    => (dp.outcome.threw /\ dp.outcome.name = "InvalidAssumptionError")

\* C16: the valuation entry points are pure: two calls with equal arguments
\* return equal results, whatever calls or timer ticks occur in between.
C16_EqualArgumentsEqualResults ==
    (svc.last # <<>> /\ svc.prev # <<>>
     /\ svc.last.size = svc.prev.size
     /\ svc.last.marketData = svc.prev.marketData)
    => svc.last.value = svc.prev.value

\* C17: holding every other assumption fixed, a higher discount rate gives a
\* strictly lower enterprise value: the value at any rate above the current
\* one is below the current value, in the component's dcf and in run_forecast.
C17_HigherRateLowerValue ==
    /\ \A r2 \in {5, 10, 25, 40} :
         r2 > ui.discountRate
         => RLt(dcf([ui EXCEPT !.discountRate = r2]).ev, dcfMemo.ev)
    /\ meta.out.status = "ok"
       => \A w2 \in PeWaccChoices :
            LET c2 == [meta.cfg EXCEPT !.wacc = w2]
            IN  (RLt(wacc(meta.cfg), wacc(c2)) /\ run_forecast(c2).status = "ok")
                => RLt(run_forecast(c2).enterprise_value,
                       meta.out.enterprise_value)

\* C18: for every forecast year t after the first, the working-capital delta
\* equals the working-capital share of revenue times
\* max(0, revenue[t] - revenue[t-1]); it is never negative.
C18_WorkingCapitalDelta ==
    meta.out.status = "ok"
    => LET rows == OperatingRows(meta.cfg)
           pct == Q(meta.cfg.working_capital.dso_days, 365)
       IN  \A t \in 2..Len(rows) :
             /\ rows[t].delta_nwc
                  = RMul(pct, RMax(Zero, RSub(rows[t].total_revenue,
                                              rows[t - 1].total_revenue)))
             /\ RLe(Zero, rows[t].delta_nwc)

\* C19: every valuation result satisfies
\* equityValue = enterpriseValue - netDebt + nonOperatingAssets: in run_forecast
\* with the config's net_debt and no non-operating assets, in to_equity with
\* the balance's liabilities and assets, in compute_epv with the value of
\* operations, debt net of excess cash and the non-operating assets it reports.
C19_EquityBridge ==
    /\ meta.out.status = "ok"
       => meta.out.equity_value
            = RAdd(RSub(meta.out.enterprise_value, meta.cfg.net_debt), Zero)
    /\ valuation.fn = "to_equity"
       => valuation.out
            = RAdd(RSub(valuation.ev, BalanceLiabilities(valuation.bal)),
                   BalanceAssets(valuation.bal))
    /\ valuation.fn = "compute_epv"
       => valuation.out.equity_value
            = RAdd(RSub(valuation.out.value_operations,
                        RSub(valuation.out.debt, valuation.out.cash_adjusted)),
                   valuation.out.non_operating_assets)

\* C20: a reported value is a weighted blend of the DCF value and the
\* comparable-multiple value only when blending has been configured; the
\* component has no such setting, so every Monte Carlo outcome it reports is
\* the equity value of one method: of that iteration's DCF value or of its
\* comparable-multiple value.
C20_SingleMethodOutcomes ==
    sim.pc = "idle"
    => \A k \in 1..Len(sim.mcResults) :
         \/ sim.mcResults[k] = McEquity(ui, McDcfEV(ui, sim.draws[k]))
         \/ sim.mcResults[k] = McEquity(ui, McCompEV(ui, sim.draws[k]))

C23_OneInstanceOneTimer ==
    /\ svc.constructed <= 1
    /\ svc.timers = svc.constructed
    /\ \A id \in svc.returned : svc.instance # <<>> /\ id = svc.instance.id

\* getInstance has been called again after the data of the object was refreshed
C23_Witness ==
    /\ svc.constructed = 1 /\ svc.returned = {1}
    /\ svc.last # <<>> /\ svc.prev # <<>>
    /\ svc.last.marketData = <<>> /\ svc.prev.marketData = <<>>
    /\ svc.last.value # svc.prev.value

\* C24: the promise of every forceUpdate is eventually resolved; at the step
\* that resolves it currentData and lastUpdate are those of its update, the
\* value it resolves with equals the current data, and isDataStale() is
\* false, whatever refresh ticks and other forceUpdate calls interleave.
C24_ForceUpdateResolves ==
    /\ [][svc'.pending < svc.pending
          => /\ svc'.resolved = svc'.instance.currentData
             /\ svc'.instance.lastUpdate = svc'.now
             /\ ~isDataStale(svc')]_vars
    /\ (svc.pending > 0) ~> (svc.pending = 0)

\* every forceUpdate has been resolved, hours after the object was built
C24_Witness ==
    /\ svc.forced = MaxForceUpdates /\ svc.pending = 0 /\ svc.resolved # <<>>
    /\ svc.now = MaxClock /\ svc.instance.lastUpdate = svc.now

\* C25: a snapshot returned by getCurrentData is isolated from the service:
\* whatever the caller writes to it, nested fields included, the data of the
\* service stays what the call returned until the data is refreshed.
C25_SnapshotIsolated ==
    (svc.snap # <<>> /\ svc.snap.aliased)
    => svc.instance.currentData = svc.snap.original

\* C26: the audit trail is append-only: every step leaves the earlier entries
\* in place and in order, the log holds one entry per log call, each with the
\* session id fixed at construction, and changing an array returned by
\* getAuditLog changes nothing in the log.
C26_AppendOnly ==
    [][/\ Len(prod.entries) <= Len(prod'.entries)
       /\ SubSeq(prod'.entries, 1, Len(prod.entries)) = prod.entries
       /\ Len(prod'.entries) = prod'.calls
       /\ prod'.sessionId = prod.sessionId
       /\ \A k \in 1..Len(prod'.entries) : prod'.entries[k].sessionId = prod.sessionId]_vars

\* an array returned by getAuditLog has been changed and differs from the log
C26_Witness ==
    /\ prod.log # <<>> /\ Len(prod.entries) = MaxEntries
    /\ Len(prod.log.items) = Len(prod.entries) - 1

\* C27: processFinancialData returns success = false, with no data, exactly
\* when an error-level rule failed on the parsed input; with success = true
\* the parsed data is returned, whatever warnings and suggestions there are.
C27_FailsIffErrorRule ==
    prod.out # <<>>
    => LET errorRuleFailed ==
               \E k \in 1..7 : /\ RuleResults(prod.out.input)[k].level = "error"
                               /\ ~RuleResults(prod.out.input)[k].passed
       IN  /\ prod.out.success = ~errorRuleFailed
           /\ ~prod.out.success => "data" \notin DOMAIN prod.out
           /\ prod.out.success => prod.out.data = prod.out.input

\* a report with warnings and suggestions but no error has been accepted
C27_Witness ==
    /\ prod.out # <<>> /\ prod.out.success
    /\ prod.out.validation.warnings # {} /\ prod.out.validation.suggestions = {}

\* C28: from the component's initial state, after any sequence of addYear,
\* removeYear, loadSample, saveSession and loadSession (the stored session
\* written by saveSession only), yearsData holds between 3 and 5 rows.
C28_ThreeToFiveYears == Len(ui.yearsData) \in 3..5

\* five rows on screen over a saved session of three rows of the sample
C28_Witness ==
    /\ Len(ui.yearsData) = 5
    /\ storage # NoSession /\ Len(storage.ui.yearsData) = 3
    /\ storage.ui.taxRate = 21

\* C29: with at least one outcome the Monte Carlo histogram has 12 buckets,
\* every outcome falls in exactly one of them (the minimum, the maximum and
\* equal outcomes included), and the counts sum to the number of outcomes.
C29_HistogramCountsAll ==
    Len(sim.mcResults) > 0
    => LET counts == mcHistogram(sim.mcResults)
       IN  /\ Len(counts) = 12
           /\ RSum([i \in 1..12 |-> Int2Q(counts[i])]) = Int2Q(Len(sim.mcResults))
           /\ counts[1] >= 1
           /\ (\E k \in 1..Len(sim.mcResults) : sim.mcResults[k] # sim.mcResults[1])
                => counts[12] >= 1

\* a finished simulation whose outcomes differ, and one whose outcomes are equal
C29_Witness ==
    /\ Len(sim.mcResults) = MaxMcRuns
    /\ sim.mcResults[1] # sim.mcResults[2]
C29_WitnessEqual ==
    /\ Len(sim.mcResults) = MaxMcRuns
    /\ sim.mcResults[1] = sim.mcResults[2]

\* C30: for every list of known scenario IDs passed to runEdgeCaseAnalysis,
\* the empty list included, the summary returned has
\* worstCaseEV <= bestCaseEV (bestCaseEV being the base-case enterprise value).
C30_WorstAtMostBest ==
    (edge.pc = "returned" /\ ~edge.threw)
    => RLe(edge.summary.worstCaseEV, edge.summary.bestCaseEV)

\* the same for the lists with at least one scenario
C30_NonEmptyWorstAtMostBest ==
    (edge.pc = "returned" /\ ~edge.threw /\ edge.scenarioIds # <<>>)
    => RLe(edge.summary.worstCaseEV, edge.summary.bestCaseEV)

====
